---------------------------- MODULE Spec2Model ----------------------------
(***************************************************************************)
(* Model of the HTTP probing engine of steadybit/extension-http:           *)
(* exthttpcheck/httpchecker.go (the engine: scheduler, worker pool,        *)
(* counters, metric channel) driven by the controller functions prepare,   *)
(* start, status and stop and the process-wide registry httpCheckers.      *)
(* One engine (one execution id) is modelled, from the moment prepare has  *)
(* returned.                                                               *)
(***************************************************************************)
EXTENDS Integers, Sequences, FiniteSets, TLC

(* ------------------------------ bounds --------------------------------- *)

\* state.MaxConcurrent: size of the worker pool and capacity of c.work.
MaxConcurrent == 2

\* Largest number of tickets the scheduler is followed for.
MaxTickets == 2

\* Largest state.NumberOfRequests drawn (0 is PERIODIC mode).
MaxNumberOfRequests == 2

\* Largest state.RequestsPerSecond drawn (FIXED_AMOUNT leaves it 0).
MaxRequestsPerSecond == 1

Workers == 1..MaxConcurrent

\* Threads of the outer lifecycle framework that call status and stop.
Callers == {"c1", "c2"}

\* Calls of start for the execution id, in the order they are made.
StartCalls == 1..2

\* Attempt numbers: the values started.Add(1) returns.
AttemptIds == 1..MaxTickets

(* ------------------------------ state ---------------------------------- *)

VARIABLES
  maxRequests,   \* httpChecker.maxRequests, latched from state.NumberOfRequests
  metricsCap,    \* cap(c.metrics) = state.RequestsPerSecond * 2
  expectsError,  \* "error" is in state.ExpectedStatusCodes
  attempt,       \* the outcome fixed for the attempt under study, if any
  prepared,      \* the prepare call: its request, its result, the ticker delay
  observed,      \* the callers whose status calls are followed from their start
  httpCheckers,  \* the registry and the engines of several execution ids
  bw,            \* the bandwidthChecker: its window, counters and stopped flag
  bwWorker,      \* position of each bandwidth worker goroutine
  bwCaller,      \* each bandwidth Status or Stop call: position, window snapshot
  maxConcurrent, \* state.MaxConcurrent of the prepared request
  resolution,    \* a status-code expression and what the resolver made of it
  registered,    \* httpCheckers holds the checker under the execution id
  work,          \* len(c.work): tickets buffered in the work channel
  workClosed,    \* c.work has been closed
  cancelled,     \* c.ctx is done
  metrics,       \* c.metrics: buffered metrics, each named by its attempt
  sendq,         \* workers parked in a blocking send on c.metrics, in order
  requested, started, success, failed,   \* c.counters
  wg,            \* c.wg: the WaitGroup counter
  spawn,         \* startWorkers: the loop variable w
  wpc,           \* each worker goroutine's position
  wid,           \* each worker's current attempt
  wok,           \* each worker's classification of its attempt
  wobs,          \* the attempt's I/O returned context.Canceled
  werr,          \* the attempt ended in a transport error (onError runs)
  stpc,          \* position of each start call and of the scheduler it launches
  cpc,           \* position of each caller thread
  cs, cf,        \* a caller's loaded success and failed values
  cafter,        \* a status call's time.Now().After(state.Timeout)
  cfin,          \* the configured attempts had finished when the status call began
  cdue,          \* the scheduler's stop rule held when the status call began
  cacc,          \* a caller's local metrics slice in getLatestMetrics
  timedOut,      \* time.Now().After(state.Timeout)
  \* history of what the calls returned
  returned,      \* how often each metric was returned by a status or stop call
  emitted,       \* attempts whose metric was handed to c.metrics
  errorTagged,   \* attempts whose metric carries the `error` tag
  stopResult,    \* result of the stop call that shut the engine down
  stopWins,      \* stop calls that got the checker from loadAndDeleteHttpChecker
  stopNoops      \* some stop call returned the no-op result

bandwidthVars == <<bw, bwWorker, bwCaller>>
engineVars == <<work, workClosed, cancelled, metrics, sendq,
                requested, started, success, failed, wg>>
configVars ==
  <<maxRequests, metricsCap, expectsError, attempt, prepared, observed, httpCheckers, bandwidthVars,
    resolution, maxConcurrent>>
workerVars == <<spawn, wpc, wid, wok, wobs, werr>>
callerVars == <<cpc, cs, cf, cafter, cfin, cdue, cacc>>
historyVars == <<returned, emitted, errorTagged, stopResult, stopWins, stopNoops>>

vars == <<maxRequests, metricsCap, expectsError, attempt, prepared, observed, httpCheckers, bandwidthVars,
          resolution, maxConcurrent,
          registered,
          work,
          workClosed,
          cancelled, metrics, sendq, requested, started, success, failed, wg,
          spawn, wpc, wid, wok, wobs, werr, stpc, cpc, cs, cf, cafter, cfin, cdue,
          cacc, timedOut, returned, emitted, errorTagged, stopResult, stopWins,
          stopNoops>>

\* No outcome is fixed in advance: every attempt's outcome is open.
NoAttempt == [fixed |-> FALSE]

\* No status-code expression is followed.
NoResolution == [state |-> "unused"]

\* prepare has returned without error; its request is not followed.
PreparedOk == [result |-> "ok"]

NoStop == [done |-> FALSE, verdict |-> "none", success |-> 0, failed |-> 0,
           rate |-> 0, counters |-> <<0, 0, 0, 0>>, emitted |-> {}]

(* newHttpChecker has returned and prepare has stored the checker: the     *)
(* channels are empty, the counters zero, and the goroutine running        *)
(* startWorkers has not registered any worker yet.                         *)
\* No engine of another execution id and no bandwidth checker is followed.
NoOtherCheckers ==
  /\ httpCheckers = <<>>
  /\ bw = [state |-> "unused"]
  /\ bwWorker = <<>>
  /\ bwCaller = <<>>

Created ==
  /\ NoOtherCheckers
  /\ maxRequests \in 0..MaxNumberOfRequests
  /\ \E rps \in 0..MaxRequestsPerSecond :
        /\ (maxRequests > 0 => rps = 0)
        /\ (maxRequests = 0 => rps > 0)
        /\ metricsCap = rps * 2
  /\ expectsError \in BOOLEAN
  /\ attempt = NoAttempt
  /\ prepared = PreparedOk
  /\ resolution = NoResolution
  /\ registered = TRUE
  /\ work = 0
  /\ workClosed = FALSE
  /\ cancelled = FALSE
  /\ metrics = <<>>
  /\ sendq = <<>>
  /\ requested = 0 /\ started = 0 /\ success = 0 /\ failed = 0
  /\ wg = 0
  /\ spawn = 1
  /\ wpc = [w \in Workers |-> "unborn"]
  /\ wid = [w \in Workers |-> 0]
  /\ wok = [w \in Workers |-> FALSE]
  /\ wobs = [w \in Workers |-> FALSE]
  /\ werr = [w \in Workers |-> FALSE]
  /\ stpc = [k \in StartCalls |-> "init"]
  /\ cpc = [c \in Callers |-> "idle"]
  /\ cs = [c \in Callers |-> 0]
  /\ cf = [c \in Callers |-> 0]
  /\ cafter = [c \in Callers |-> FALSE]
  /\ cfin = [c \in Callers |-> FALSE]
  /\ cdue = [c \in Callers |-> FALSE]
  /\ cacc = [c \in Callers |-> <<>>]
  /\ timedOut = FALSE
  /\ returned = [i \in AttemptIds |-> 0]
  /\ emitted = {}
  /\ errorTagged = {}
  /\ stopResult = NoStop
  /\ stopWins = 0
  /\ stopNoops = FALSE

\* The engine as created, its status calls not followed.
Init == Created /\ observed = {} /\ maxConcurrent = MaxConcurrent


(* --------------------------- worker pool ------------------------------- *)

(* A pool of the largest size whatever the request asks for.              *)
SpawnWorkerLargest ==
  /\ spawn <= MaxConcurrent
  /\ wg' = wg + 1
  /\ wpc' = [wpc EXCEPT ![spawn] = "recv"]
  /\ spawn' = spawn + 1
  /\ UNCHANGED <<configVars, registered, work, workClosed, cancelled, metrics,
                 sendq, requested, started, success, failed, wid, wok, wobs, werr,
                 stpc, callerVars, timedOut, historyVars>>

(* startWorkers, one iteration of its loop: c.wg.Go registers the worker   *)
(* (counter + 1) and starts its goroutine, which begins at `range c.work`. *)
SpawnWorker ==
  /\ spawn <= maxConcurrent
  /\ wg' = wg + 1
  /\ wpc' = [wpc EXCEPT ![spawn] = "recv"]
  /\ spawn' = spawn + 1
  /\ UNCHANGED <<configVars, registered, work, workClosed, cancelled, metrics,
                 sendq, requested, started, success, failed, wid, wok, wobs, werr,
                 stpc, callerVars, timedOut, historyVars>>

(* A worker loop that begins an attempt without a ticket.                  *)
WorkerReceiveUnfed(w) ==
  /\ wpc[w] = "recv"
  /\ wpc' = [wpc EXCEPT ![w] = "begin"]
  /\ UNCHANGED <<configVars, registered, work, workClosed, cancelled, metrics,
                 sendq, requested, started, success, failed, wg, spawn, wid,
                 wok, wobs, werr, stpc, callerVars, timedOut, historyVars>>

(* `for range c.work`: take a buffered ticket; when the channel is closed  *)
(* and drained the loop ends, the goroutine returns and wg.Go's wrapper    *)
(* calls Done.  With no ticket and an open channel the worker blocks.      *)
WorkerReceive(w) ==
  /\ wpc[w] = "recv"
  /\ \/ /\ work > 0
        /\ work' = work - 1
        /\ wpc' = [wpc EXCEPT ![w] = "begin"]
        /\ wg' = wg
     \/ /\ work = 0
        /\ workClosed
        /\ wpc' = [wpc EXCEPT ![w] = "exited"]
        /\ wg' = wg - 1
        /\ work' = work
  /\ UNCHANGED <<configVars, registered, workClosed, cancelled, metrics, sendq,
                 requested, started, success, failed, spawn, wid, wok, wobs, werr,
                 stpc, callerVars, timedOut, historyVars>>

(* createRequest(c.ctx, state), then performRequest up to                  *)
(* c.counters.started.Add(1).  A request whose context is already done     *)
(* fails in httpClient.Do with context.Canceled before any I/O.            *)
WorkerBegin(w) ==
  /\ wpc[w] = "begin"
  /\ started' = started + 1
  /\ wid' = [wid EXCEPT ![w] = started + 1]
  /\ wpc' = [wpc EXCEPT ![w] = IF cancelled THEN "aborted" ELSE "do"]
  /\ UNCHANGED <<configVars, registered, work, workClosed, cancelled, metrics,
                 sendq, requested, success, failed, wg, spawn, wok, wobs, werr,
                 stpc, callerVars, timedOut, historyVars>>

(* httpClient.Do returns: with a response, whose body is still to be      *)
(* read, or with a transport error (refused, TLS, read timeout), which     *)
(* performRequest classifies by `"error" in ExpectedStatusCodes` before    *)
(* it calls onError.                                                       *)
WorkerIOWith(w, fails) ==
  /\ wpc[w] = "do"
  /\ IF fails
       THEN /\ wpc' = [wpc EXCEPT ![w] = "send"]
            /\ wok' = [wok EXCEPT ![w] = expectsError]
            /\ werr' = [werr EXCEPT ![w] = TRUE]
       ELSE /\ wpc' = [wpc EXCEPT ![w] = "body"]
            /\ UNCHANGED <<wok, werr>>
  /\ UNCHANGED <<configVars, registered, engineVars, spawn, wid, wobs,
                 stpc, callerVars, timedOut, historyVars>>

WorkerIO(w) == \E fails \in BOOLEAN : WorkerIOWith(w, fails)

(* httpClient.Do returns an error for which errors.Is(err,                 *)
(* context.Canceled) holds: performRequest returns at once.                *)
WorkerCancelled(w) ==
  /\ \/ wpc[w] = "aborted"
     \/ wpc[w] = "do" /\ cancelled
  /\ wpc' = [wpc EXCEPT ![w] = "recv"]
  /\ wid' = [wid EXCEPT ![w] = 0]
  /\ UNCHANGED <<configVars, registered, engineVars, spawn, wok, wobs, werr,
                 stpc, callerVars, timedOut, historyVars>>

\* A verdict on a response that leaves the response-time check out.
ResponseSuccessfulUntimed(statusExpected, bodyOk, timeOk) ==
  statusExpected /\ bodyOk

\* performRequest's verdict on a response: status, body and time checks.
ResponseSuccessful(statusExpected, bodyOk, timeOk) ==
  statusExpected /\ bodyOk /\ timeOk

\* The body check: skipped without ResponsesContains; an unreadable or empty
\* body fails it; otherwise it is strings.Contains.
ResponseBodyWasSuccessful(checksBody, bodyEmpty, bodyErr, contains) ==
  IF ~checksBody THEN TRUE
  ELSE IF bodyEmpty \/ bodyErr THEN FALSE
  ELSE contains

\* The response-time check of state.ResponseTimeMode.
ResponseTimeWasSuccessful(mode, responseTime, limit) ==
  CASE mode = "SHORTER_THAN" -> responseTime <= limit
    [] mode = "LONGER_THAN"  -> responseTime >= limit
    [] OTHER                 -> TRUE

\* What reading and checking a response comes to: whether the read returned
\* context.Canceled, and the classification handed to onResponse.
BodyOutcome(readResult, statusExpected, checksBody, bodyEmpty, contains, timeOk) ==
  [canceled |-> readResult = "canceled",
   ok |-> ResponseSuccessful(statusExpected,
             ResponseBodyWasSuccessful(checksBody, bodyEmpty,
                                       readResult # "ok", contains),
             timeOk)]

(* Do returned a response; io.ReadAll(response.Body) reads the body.  A    *)
(* read error (bodyErr), which is what a context cancelled during the read *)
(* gives, is only logged: the checks are evaluated and onResponse called.  *)
WorkerReadBodyWith(w, outcome) ==
  /\ wpc[w] = "body"
  /\ outcome.canceled => cancelled
  /\ wobs' = [wobs EXCEPT ![w] = outcome.canceled]
  /\ wok' = [wok EXCEPT ![w] = outcome.ok]
  /\ wpc' = [wpc EXCEPT ![w] = "send"]
  /\ UNCHANGED <<configVars, registered, engineVars, spawn, wid, werr,
                 stpc, callerVars, timedOut, historyVars>>

\* Every outcome reading and checking a response can have.
BodyOutcomes ==
  {BodyOutcome(readResult, statusExpected, checksBody, bodyEmpty, contains,
               timeOk) :
     readResult \in {"ok", "error", "canceled"},
     statusExpected \in BOOLEAN, checksBody \in BOOLEAN,
     bodyEmpty \in BOOLEAN, contains \in BOOLEAN, timeOk \in BOOLEAN}

WorkerReadBody(w) == \E outcome \in BodyOutcomes : WorkerReadBodyWith(w, outcome)

\* A tagging that never records the `error` key.
Untagged(tags, id, byOnError) == tags

\* The attempts whose Metric has the `error` key: onError's metrics have it,
\* onResponse's have `http_status` instead.
Tagged(tags, id, byOnError) == IF byOnError THEN tags \cup {id} ELSE tags

\* Metric maps in which onError also sets `http_status`.
MetricKeysBoth(byOnError) ==
  IF byOnError
    THEN {"url", "error", "http_status", "expected_http_status"}
    ELSE {"url", "http_status", "expected_http_status",
          "response_constraints_fulfilled",
          "response_time_constraints_fulfilled"}

\* The keys of the Metric map that onError, or else onResponse, builds.
MetricKeys(byOnError) ==
  IF byOnError
    THEN {"url", "error", "expected_http_status"}
    ELSE {"url", "http_status", "expected_http_status",
          "response_constraints_fulfilled",
          "response_time_constraints_fulfilled"}

\* A send on a buffered channel completes at once iff the buffer has room.
ChanHasRoom(buf, cap) == Len(buf) < cap

\* The counter update is reached without a Metric having been sent.
WorkerSendSkipped(w) ==
  /\ wpc[w] = "send"
  /\ wpc' = [wpc EXCEPT ![w] = "count"]
  /\ UNCHANGED <<configVars, registered, work, workClosed, cancelled, metrics,
                 sendq, requested, started, success, failed, wg, spawn, wid,
                 wok, wobs, werr, stpc, callerVars, timedOut, historyVars>>

(* onError / onResponse, `c.metrics <- Metric{...}`: with room in the      *)
(* buffer the metric is enqueued; otherwise the worker parks in the        *)
(* channel's send queue until a receiver takes it.                         *)
WorkerSend(w) ==
  /\ wpc[w] = "send"
  /\ IF ChanHasRoom(metrics, metricsCap)
       THEN /\ metrics' = Append(metrics, wid[w])
            /\ emitted' = emitted \cup {wid[w]}
            /\ errorTagged' = Tagged(errorTagged, wid[w], werr[w])
            /\ wpc' = [wpc EXCEPT ![w] = "count"]
            /\ sendq' = sendq
       ELSE /\ sendq' = Append(sendq, w)
            /\ wpc' = [wpc EXCEPT ![w] = "parked"]
            /\ UNCHANGED <<metrics, emitted, errorTagged>>
  /\ UNCHANGED <<configVars, registered, work, workClosed, cancelled,
                 requested, started, success, failed, wg, spawn, wid, wok, wobs, werr,
                 stpc, callerVars, timedOut, returned, stopResult, stopWins,
                 stopNoops>>

\* A counter update that bumps both tallies.
CountBoth(s, f, ok) == <<s + 1, f + 1>>

\* The counter update that ends onError and onResponse: <<success, failed>>.
CountResult(s, f, ok) == IF ok THEN <<s + 1, f>> ELSE <<s, f + 1>>

(* A worker that ends after recording a transport error.                   *)
WorkerCountFatal(w) ==
  /\ wpc[w] = "count"
  /\ success' = CountResult(success, failed, wok[w])[1]
  /\ failed' = CountResult(success, failed, wok[w])[2]
  /\ wpc' = [wpc EXCEPT ![w] = IF werr[w] THEN "exited" ELSE "recv"]
  /\ wg' = IF werr[w] THEN wg - 1 ELSE wg
  /\ wid' = [wid EXCEPT ![w] = 0]
  /\ wok' = [wok EXCEPT ![w] = FALSE]
  /\ wobs' = [wobs EXCEPT ![w] = FALSE]
  /\ werr' = [werr EXCEPT ![w] = FALSE]
  /\ UNCHANGED <<configVars, registered, work, workClosed, cancelled, metrics,
                 sendq, requested, started, spawn,
                 stpc, callerVars, timedOut, historyVars>>

(* onError / onResponse after the send: success.Add(1) or failed.Add(1);   *)
(* performRequest returns and the worker is back at `range c.work`.        *)
WorkerCount(w) ==
  /\ wpc[w] = "count"
  /\ success' = CountResult(success, failed, wok[w])[1]
  /\ failed' = CountResult(success, failed, wok[w])[2]
  /\ wpc' = [wpc EXCEPT ![w] = "recv"]
  /\ wid' = [wid EXCEPT ![w] = 0]
  /\ wok' = [wok EXCEPT ![w] = FALSE]
  /\ wobs' = [wobs EXCEPT ![w] = FALSE]
  /\ werr' = [werr EXCEPT ![w] = FALSE]
  /\ UNCHANGED <<configVars, registered, work, workClosed, cancelled, metrics,
                 sendq, requested, started, wg, spawn,
                 stpc, callerVars, timedOut, historyVars>>

(* ------------------------ start and scheduler -------------------------- *)

\* A lookup that finds a checker whatever the registry holds.
LoadAnything(reg) == TRUE

\* sync.Map.Load(id): whether the registry holds the checker.
LoadHttpChecker(reg) == reg

(* start(state): loadHttpChecker; an unknown id is an error and nothing    *)
(* is started.                                                             *)
StartLoad(k) ==
  /\ stpc[k] = "init"
  /\ stpc' = [stpc EXCEPT ![k] = IF LoadHttpChecker(registered)
                                    THEN "first" ELSE "failed"]
  /\ UNCHANGED <<configVars, registered, engineVars, workerVars, callerVars,
                 timedOut, historyVars>>

(* httpChecker.start: `c.work <- struct{}{}`, a blocking send, which       *)
(* completes while the buffer has room; on a closed channel it panics.     *)
StartFirstTicket(k) ==
  /\ stpc[k] = "first"
  /\ IF workClosed
       THEN work' = work /\ stpc' = [stpc EXCEPT ![k] = "panic"]
       ELSE /\ work < maxConcurrent
            /\ work' = work + 1
            /\ stpc' = [stpc EXCEPT ![k] = "firstAdd"]
  /\ UNCHANGED <<configVars, registered, workClosed, cancelled, metrics, sendq,
                 requested, started, success, failed, wg, workerVars,
                 callerVars, timedOut, historyVars>>

(* The first ticket is pushed but not counted.                             *)
StartFirstAddSkipped(k) ==
  /\ stpc[k] = "firstAdd"
  /\ requested' = requested
  /\ stpc' = [stpc EXCEPT ![k] = "loop"]
  /\ UNCHANGED <<configVars, registered, work, workClosed, cancelled, metrics,
                 sendq, started, success, failed, wg, workerVars,
                 callerVars, timedOut, historyVars>>

(* httpChecker.start: c.counters.requested.Add(1) for the first ticket,    *)
(* then `go func()` starts the scheduler goroutine and start returns.      *)
StartFirstAdd(k) ==
  /\ stpc[k] = "firstAdd"
  /\ requested' = requested + 1
  /\ stpc' = [stpc EXCEPT ![k] = "loop"]
  /\ UNCHANGED <<configVars, registered, work, workClosed, cancelled, metrics,
                 sendq, started, success, failed, wg, workerVars,
                 callerVars, timedOut, historyVars>>

\* Every tick is counted, the dropped ones too.
SchedulerTickCountsEvents(k) ==
  /\ stpc[k] = "loop"
  /\ requested < MaxTickets
  /\ IF workClosed
       THEN work' = work /\ stpc' = [stpc EXCEPT ![k] = "panic"]
       ELSE IF work < maxConcurrent
       THEN work' = work + 1 /\ stpc' = [stpc EXCEPT ![k] = "tickAdd"]
       ELSE work' = work /\ stpc' = [stpc EXCEPT ![k] = "tickAdd"]
  /\ UNCHANGED <<configVars, registered, workClosed, cancelled, metrics, sendq,
                 requested, started, success, failed, wg, workerVars,
                 callerVars, timedOut, historyVars>>

(* Scheduler goroutine, `case t := <-ticker.C` with the inner select: a    *)
(* non-blocking send on c.work; with a full buffer the tick is dropped,    *)
(* and on a closed channel the send panics.                                *)
SchedulerTick(k) ==
  /\ stpc[k] = "loop"
  /\ requested < MaxTickets
  /\ IF workClosed
       THEN work' = work /\ stpc' = [stpc EXCEPT ![k] = "panic"]
       ELSE IF work < maxConcurrent
       THEN work' = work + 1 /\ stpc' = [stpc EXCEPT ![k] = "tickAdd"]
       ELSE work' = work /\ stpc' = stpc
  /\ UNCHANGED <<configVars, registered, workClosed, cancelled, metrics, sendq,
                 requested, started, success, failed, wg, workerVars,
                 callerVars, timedOut, historyVars>>

\* A scheduler that never finds its maximum reached.
SchedulerNeverReachesMax(counter, max) == FALSE

\* The scheduler's stop rule after counting a ticket.
SchedulerReachedMax(counter, max) == max > 0 /\ counter >= max

(* Scheduler goroutine after a successful send: counter :=                 *)
(* requested.Add(1); with maxRequests reached the goroutine returns.       *)
SchedulerTickAdd(k) ==
  /\ stpc[k] = "tickAdd"
  /\ requested' = requested + 1
  /\ stpc' = [stpc EXCEPT ![k] =
                 IF SchedulerReachedMax(requested + 1, maxRequests)
                   THEN "closing" ELSE "loop"]
  /\ UNCHANGED <<configVars, registered, work, workClosed, cancelled, metrics,
                 sendq, started, success, failed, wg, workerVars,
                 callerVars, timedOut, historyVars>>

\* Scheduler goroutine, `case <-c.ctx.Done(): return`.
SchedulerCtxDone(k) ==
  /\ stpc[k] = "loop"
  /\ cancelled
  /\ stpc' = [stpc EXCEPT ![k] = "closing"]
  /\ UNCHANGED <<configVars, registered, engineVars, workerVars, callerVars,
                 timedOut, historyVars>>

\* The scheduler's deferred function: ticker.Stop(); close(c.work).
\* Closing a channel that is already closed panics.
SchedulerClose(k) ==
  /\ stpc[k] = "closing"
  /\ workClosed' = TRUE
  /\ stpc' = [stpc EXCEPT ![k] = IF workClosed THEN "panic" ELSE "done"]
  /\ UNCHANGED <<configVars, registered, work, cancelled, metrics, sendq,
                 requested, started, success, failed, wg, workerVars,
                 callerVars, timedOut, historyVars>>

\* The deadline state.Timeout passes.
DeadlinePasses ==
  /\ ~timedOut
  /\ timedOut' = TRUE
  /\ UNCHANGED <<configVars, registered, engineVars, workerVars, stpc,
                 callerVars, historyVars>>

(* -------------------- the verdict and its float64 --------------------- *)
(* stop computes float64(success) / float64(total) * 100.0 and compares it *)
(* with float64(state.SuccessRate).  The two IEEE-754 binary64 operations  *)
(* are computed here as the hardware computes them: the exact result       *)
(* rounded to a 53-bit significand, ties to even.  A significand is held   *)
(* in four limbs, top * 2^52 + hi * 2^34 + mid * 2^16 + lo, so that every  *)
(* intermediate value stays a small integer.                               *)

\* Radix of the hi and mid limbs (18 bits) and of the lo limb (16 bits).
Limb == 2^18
LowLimb == 2^16

\* The least k with s * 2^k >= t, for 0 < s.
RECURSIVE NormShift(_, _)
NormShift(s, t) == IF s >= t THEN 0 ELSE 1 + NormShift(2 * s, t)

\* significand + 1, carrying through the limbs.
SigInc(x) ==
  IF x.lo + 1 < LowLimb THEN [x EXCEPT !.lo = x.lo + 1]
  ELSE IF x.mid + 1 < Limb THEN [x EXCEPT !.lo = 0, !.mid = x.mid + 1]
  ELSE IF x.hi + 1 < Limb THEN [x EXCEPT !.lo = 0, !.mid = 0, !.hi = x.hi + 1]
  ELSE [x EXCEPT !.lo = 0, !.mid = 0, !.hi = 0, !.top = x.top + 1]

\* Round to nearest, ties to even: whether to round up, from the last kept
\* bit, the first dropped bit and whether any later bit is set.
RoundsUp(lastKept, half, sticky) == half /\ (sticky \/ lastKept = 1)

(* float64(s) / float64(t) for 0 < s <= t and t < 2^13: the significand of *)
(* the quotient and k, the quotient being significand * 2^(-52-k).  The    *)
(* quotient bits come from long division, 18, 18 and 16 at a time, and one *)
(* more for the rounding.                                                  *)
Float64Div(s, t) ==
  LET k  == NormShift(s, t)
      r0 == (s * (2^k)) - t
      hi == (r0 * Limb) \div t
      r1 == (r0 * Limb) % t
      mid == (r1 * Limb) \div t
      r2 == (r1 * Limb) % t
      lo == (r2 * LowLimb) \div t
      r3 == (r2 * LowLimb) % t
      half == 2 * r3 >= t
      sticky == IF half THEN (2 * r3 - t) # 0 ELSE r3 # 0
      floor == [top |-> 1, hi |-> hi, mid |-> mid, lo |-> lo, k |-> k]
  IN IF RoundsUp(lo % 2, half, sticky) THEN SigInc(floor) ELSE floor

(* x * 100.0 in float64, for x = Float64Div(s, t): the exact product in    *)
(* limbs (its top limb is 100..200, so it has 59 or 60 bits), rounded to   *)
(* 53 bits by dropping the low 6 or 7 bits of the lo limb.  The product is *)
(* significand * 2^(-52-k), the dropped bits being zero.                   *)
Float64Mul100(x) ==
  LET e3  == 100 * x.lo
      e2  == (100 * x.mid) + (e3 \div LowLimb)
      e1  == (100 * x.hi) + (e2 \div Limb)
      top == (100 * x.top) + (e1 \div Limb)
      lo  == e3 % LowLimb
      d   == IF top < 128 THEN 6 ELSE 7
      unit == 2^d
      kept == lo - (lo % unit)
      half == (lo % unit) >= (unit \div 2)
      sticky == ((lo % unit) % (unit \div 2)) # 0
      floor == [top |-> top, hi |-> e1 % Limb, mid |-> e2 % Limb,
                lo |-> kept, k |-> x.k]
      up == RoundsUp((kept \div unit) % 2, half, sticky)
  IN IF ~up THEN floor
     ELSE IF kept + unit < LowLimb THEN [floor EXCEPT !.lo = kept + unit]
     ELSE SigInc([floor EXCEPT !.lo = LowLimb - 1])

\* The integer part of a float64 significand * 2^(-52-k).
Float64Floor(x) == x.top \div (2^x.k)

(* stop: successRate >= float64(state.SuccessRate), the threshold being an *)
(* integer, so the comparison is on the integer part of successRate.       *)
SuccessRateReached(s, total, rate) ==
  IF s = 0 THEN 0 >= rate
  ELSE Float64Floor(Float64Mul100(Float64Div(s, total))) >= rate

(* stop's verdict from the loaded counters and state.SuccessRate.          *)
Verdict(s, f, rate) ==
  IF s + f = 0 THEN "NoRequestsCompleted"
  ELSE IF SuccessRateReached(s, s + f, rate) THEN "OK"
  ELSE "Failed"

(* ------------------------- status and stop ----------------------------- *)

\* Largest value of the successRate parameter (a percentage).
MaxSuccessRate == 100

\* Values state.SuccessRate is drawn from when the whole engine runs.
SuccessRates == {0, MaxSuccessRate \div 2, MaxSuccessRate}

\* What a receive on c.metrics yields: the head of the buffer, or with an
\* empty buffer the metric of the first parked sender.
RecvItem(buf, q, ids) == IF Len(buf) > 0 THEN Head(buf) ELSE ids[Head(q)]

\* A receive that leaves the buffer as it was.
RecvBufferKeep(buf, q, ids) == buf

\* The buffer after a receive: the head is removed, and the first parked
\* sender's metric is moved in behind it.
RecvBuffer(buf, q, ids) ==
  IF Len(buf) = 0 THEN buf
  ELSE IF Len(q) > 0 THEN Append(Tail(buf), ids[Head(q)])
  ELSE Tail(buf)

\* A receive on c.metrics can proceed: a metric is buffered or a sender waits.
RecvReady(buf, q) == Len(buf) > 0 \/ Len(q) > 0

\* How often metric i occurs in the slice a call returns.
Occurrences(acc, i) == Cardinality({k \in 1..Len(acc) : acc[k] = i})

(* getLatestMetrics, `case metric := <-c.metrics`: one metric is received  *)
(* and appended to the local slice; a parked sender, if any, completes its *)
(* send and goes on to its counter update.                                 *)
DrainOne(c) ==
  /\ cpc[c] \in {"statusDrain", "stopDrain"}
  /\ RecvReady(metrics, sendq)
  /\ cacc' = [cacc EXCEPT ![c] = Append(@, RecvItem(metrics, sendq, wid))]
  /\ metrics' = RecvBuffer(metrics, sendq, wid)
  /\ IF Len(sendq) > 0
       THEN /\ sendq' = Tail(sendq)
            /\ wpc' = [wpc EXCEPT ![Head(sendq)] = "count"]
            /\ emitted' = emitted \cup {wid[Head(sendq)]}
            /\ errorTagged' =
                 Tagged(errorTagged, wid[Head(sendq)], werr[Head(sendq)])
       ELSE UNCHANGED <<sendq, wpc, emitted, errorTagged>>
  /\ UNCHANGED <<configVars, registered, work, workClosed, cancelled,
                 requested, started, success, failed, wg, spawn, wid, wok, wobs, werr,
                 stpc, cpc, cs, cf, cafter, cfin, cdue, timedOut, returned, stopResult,
                 stopWins, stopNoops>>

\* The metrics counted as returned once a call hands back the slice acc.
Returned(ret, acc) == [i \in AttemptIds |-> ret[i] + Occurrences(acc, i)]

\* In FIXED_AMOUNT mode, the scheduler's stop rule is satisfied.
StopRule(req, max) == max > 0 /\ req >= max

\* In FIXED_AMOUNT mode, the configured number of attempts has finished.
AttemptsFinished(total, max) == max > 0 /\ total >= max

(* status(state): loadHttpChecker; an unknown id is an error.  With        *)
(* state.NumberOfRequests = 0 the counters are not read.                   *)
StatusLoad(c) ==
  /\ cpc[c] = "idle"
  /\ LoadHttpChecker(registered)
  /\ cpc' = [cpc EXCEPT ![c] = IF maxRequests > 0 THEN "statusSuccess"
                                ELSE "statusDrain"]
  /\ cs' = [cs EXCEPT ![c] = 0]
  /\ cf' = [cf EXCEPT ![c] = 0]
  /\ cafter' = [cafter EXCEPT ![c] = FALSE]
  /\ cfin' = [cfin EXCEPT ![c] = c \in observed /\
                     AttemptsFinished(success + failed, maxRequests)]
  /\ cdue' = [cdue EXCEPT ![c] = c \in observed /\
                     StopRule(requested, maxRequests)]
  /\ UNCHANGED <<configVars, registered, engineVars, workerVars, stpc, cacc,
                 timedOut, historyVars>>

\* A load of the success tally that reads nothing.
StatusLoadSuccessZero(c) ==
  /\ cpc[c] = "statusSuccess"
  /\ cs' = [cs EXCEPT ![c] = 0]
  /\ cpc' = [cpc EXCEPT ![c] = "statusFailed"]
  /\ UNCHANGED <<configVars, registered, engineVars, workerVars, stpc, cf,
                 cafter, cfin, cdue, cacc, timedOut, historyVars>>

\* status: checker.counters.success.Load().
StatusLoadSuccess(c) ==
  /\ cpc[c] = "statusSuccess"
  /\ cs' = [cs EXCEPT ![c] = success]
  /\ cpc' = [cpc EXCEPT ![c] = "statusFailed"]
  /\ UNCHANGED <<configVars, registered, engineVars, workerVars, stpc, cf,
                 cafter, cfin, cdue, cacc, timedOut, historyVars>>

\* A clock reading that is always after the deadline.
StatusLoadFailedLate(c) ==
  /\ cpc[c] = "statusFailed"
  /\ cf' = [cf EXCEPT ![c] = failed]
  /\ cafter' = [cafter EXCEPT ![c] = TRUE]
  /\ UNCHANGED <<cfin, cdue>>
  /\ cpc' = [cpc EXCEPT ![c] = "statusDrain"]
  /\ UNCHANGED <<configVars, registered, engineVars, workerVars, stpc, cs,
                 cacc, timedOut, historyVars>>

\* status: checker.counters.failed.Load(), then time.Now().After(Timeout).
StatusLoadFailed(c) ==
  /\ cpc[c] = "statusFailed"
  /\ cf' = [cf EXCEPT ![c] = failed]
  /\ cafter' = [cafter EXCEPT ![c] = timedOut]
  /\ UNCHANGED <<cfin, cdue>>
  /\ cpc' = [cpc EXCEPT ![c] = "statusDrain"]
  /\ UNCHANGED <<configVars, registered, engineVars, workerVars, stpc, cs,
                 cacc, timedOut, historyVars>>

\* A completion test that does not look at the mode.
StatusCompletedAnyMode(numberOfRequests, total, max, afterDeadline) ==
  total >= max \/ afterDeadline

\* A completion test that is one request early.
StatusCompletedEarly(numberOfRequests, total, max, afterDeadline) ==
  IF numberOfRequests > 0 THEN total + 1 >= max \/ afterDeadline ELSE FALSE

\* status: the value of `completed`.
StatusCompleted(numberOfRequests, total, max, afterDeadline) ==
  IF numberOfRequests > 0 THEN total >= max \/ afterDeadline ELSE FALSE

(* getLatestMetrics finds the channel empty (`default`) and status returns *)
(* the StatusResult, whose Completed is StatusCompleted of the loaded      *)
(* counters and the deadline reading.                                      *)
StatusReturn(c) ==
  /\ cpc[c] = "statusDrain"
  /\ ~RecvReady(metrics, sendq)
  /\ returned' = Returned(returned, cacc[c])
  /\ cacc' = [cacc EXCEPT ![c] = <<>>]
  /\ cs' = [cs EXCEPT ![c] = 0]
  /\ cf' = [cf EXCEPT ![c] = 0]
  /\ cafter' = [cafter EXCEPT ![c] = FALSE]
  /\ cfin' = [cfin EXCEPT ![c] = FALSE]
  /\ cdue' = [cdue EXCEPT ![c] = FALSE]
  /\ cpc' = [cpc EXCEPT ![c] = "idle"]
  /\ UNCHANGED <<configVars, registered, engineVars, workerVars, stpc,
                 timedOut, emitted, errorTagged, stopResult, stopWins,
                 stopNoops>>

\* A load that leaves the entry in the registry.
LoadWithoutDelete(reg) == reg

\* sync.Map.LoadAndDelete(id): the registry afterwards.
LoadAndDelete(reg) == FALSE

(* stop(state): loadAndDeleteHttpChecker.  The call that finds the checker *)
(* removes it and goes on; any other call returns (nil, nil).              *)
StopLoad(c) ==
  /\ cpc[c] = "idle"
  /\ IF LoadHttpChecker(registered)
       THEN /\ registered' = LoadAndDelete(registered)
            /\ stopWins' = stopWins + 1
            /\ cpc' = [cpc EXCEPT ![c] = "stopCancel"]
            /\ stopNoops' = stopNoops
       ELSE /\ stopNoops' = TRUE
            /\ UNCHANGED <<registered, stopWins, cpc>>
  /\ UNCHANGED <<configVars, engineVars, workerVars, stpc, cs, cf, cafter, cfin, cdue,
                 cacc, timedOut, returned, emitted, errorTagged, stopResult>>

\* shutdown: c.ctxCancel().
StopCancel(c) ==
  /\ cpc[c] = "stopCancel"
  /\ cancelled' = TRUE
  /\ cpc' = [cpc EXCEPT ![c] = "stopWait"]
  /\ UNCHANGED <<configVars, registered, work, workClosed, metrics, sendq,
                 requested, started, success, failed, wg, workerVars, stpc,
                 cs, cf, cafter, cfin, cdue, cacc, timedOut, historyVars>>

\* sync.WaitGroup.Wait returns once the counter is zero.
WaitGroupDone(counter) == counter = 0

\* shutdown: c.wg.Wait().
StopWait(c) ==
  /\ cpc[c] = "stopWait"
  /\ WaitGroupDone(wg)
  /\ cpc' = [cpc EXCEPT ![c] = "stopSuccess"]
  /\ UNCHANGED <<configVars, registered, engineVars, workerVars, stpc,
                 cs, cf, cafter, cfin, cdue, cacc, timedOut, historyVars>>

\* stop: checker.counters.success.Load().
StopLoadSuccess(c) ==
  /\ cpc[c] = "stopSuccess"
  /\ cs' = [cs EXCEPT ![c] = success]
  /\ cpc' = [cpc EXCEPT ![c] = "stopFailed"]
  /\ UNCHANGED <<configVars, registered, engineVars, workerVars, stpc, cf,
                 cafter, cfin, cdue, cacc, timedOut, historyVars>>

\* stop: checker.counters.failed.Load().
StopLoadFailed(c) ==
  /\ cpc[c] = "stopFailed"
  /\ cf' = [cf EXCEPT ![c] = failed]
  /\ cpc' = [cpc EXCEPT ![c] = "stopDrain"]
  /\ UNCHANGED <<configVars, registered, engineVars, workerVars, stpc, cs,
                 cafter, cfin, cdue, cacc, timedOut, historyVars>>

(* getLatestMetrics finds the channel empty; stop computes the verdict     *)
(* from the loaded counters and state.SuccessRate and returns.             *)
StopReturnWith(c, rates) ==
  /\ cpc[c] = "stopDrain"
  /\ ~RecvReady(metrics, sendq)
  /\ \E rate \in rates :
        stopResult' = [done |-> TRUE,
                       verdict |-> Verdict(cs[c], cf[c], rate),
                       success |-> cs[c], failed |-> cf[c], rate |-> rate,
                       counters |-> <<requested, started, success, failed>>,
                       emitted |-> emitted]
  /\ returned' = Returned(returned, cacc[c])
  /\ cacc' = [cacc EXCEPT ![c] = <<>>]
  /\ cs' = [cs EXCEPT ![c] = 0]
  /\ cf' = [cf EXCEPT ![c] = 0]
  /\ cpc' = [cpc EXCEPT ![c] = "idle"]
  /\ UNCHANGED <<configVars, registered, engineVars, workerVars, stpc, cafter, cfin, cdue,
                 timedOut, emitted, errorTagged, stopWins, stopNoops>>

StopReturn(c) == StopReturnWith(c, SuccessRates)

(* ------------------------- the specification --------------------------- *)

WorkerStep(w) ==
  \/ WorkerReceive(w)
  \/ WorkerBegin(w)
  \/ WorkerIO(w)
  \/ WorkerCancelled(w)
  \/ WorkerReadBody(w)
  \/ WorkerSend(w)
  \/ WorkerCount(w)

StartStep(k) == StartLoad(k) \/ StartFirstTicket(k) \/ StartFirstAdd(k)

SchedulerStep(k) ==
  \/ SchedulerTick(k)
  \/ SchedulerTickAdd(k)
  \/ SchedulerCtxDone(k)
  \/ SchedulerClose(k)

StatusStep(c) ==
  \/ StatusLoad(c)
  \/ StatusLoadSuccess(c)
  \/ StatusLoadFailed(c)
  \/ StatusReturn(c)

StopStep(c) ==
  \/ StopLoad(c)
  \/ StopCancel(c)
  \/ StopWait(c)
  \/ StopLoadSuccess(c)
  \/ StopLoadFailed(c)
  \/ StopReturn(c)

Next ==
  \/ SpawnWorker
  \/ \E w \in Workers : WorkerStep(w)
  \/ StartStep(1)
  \/ SchedulerStep(1)
  \/ DeadlinePasses
  \/ \E c \in Callers : StatusStep(c) \/ DrainOne(c) \/ StopStep(c)

Spec == Init /\ [][Next]_vars

(* Fair scheduling of the engine's tasks and of calls in progress: the     *)
(* Go scheduler runs every runnable goroutine; whether and when the outer  *)
(* framework makes a new status or stop call is left open.                 *)
StatusRun(c) ==
  StatusLoadSuccess(c) \/ StatusLoadFailed(c) \/ StatusReturn(c) \/ DrainOne(c)

StopRun(c) ==
  \/ StopCancel(c)
  \/ StopWait(c)
  \/ StopLoadSuccess(c)
  \/ StopLoadFailed(c)
  \/ StopReturn(c)
  \/ DrainOne(c)

Fairness ==
  /\ WF_vars(SpawnWorker)
  /\ \A w \in Workers : WF_vars(WorkerStep(w))
  /\ WF_vars(StartStep(1))
  /\ WF_vars(SchedulerStep(1))
  /\ \A c \in Callers : WF_vars(StatusRun(c)) /\ WF_vars(StopRun(c))

FairSpec == Spec /\ Fairness

(* ------------------------- the verdict alone ---------------------------- *)

\* Largest success and failed tallies the verdict is computed for.
MaxVerdictCount == 29

(* An engine that has been shut down after success + failed attempts, with *)
(* one stop call about to compute the verdict from the loaded tallies.     *)
InitVerdict ==
  /\ maxRequests = 0
  /\ metricsCap = 2
  /\ expectsError = FALSE
  /\ attempt = NoAttempt
  /\ prepared = PreparedOk
  /\ resolution = NoResolution
  /\ observed = {}
  /\ NoOtherCheckers
  /\ maxConcurrent = MaxConcurrent
  /\ registered = FALSE
  /\ work = 0
  /\ workClosed = TRUE
  /\ cancelled = TRUE
  /\ metrics = <<>>
  /\ sendq = <<>>
  /\ success \in 0..MaxVerdictCount
  /\ failed \in 0..MaxVerdictCount
  /\ started = success + failed
  /\ requested = started
  /\ wg = 0
  /\ spawn = MaxConcurrent + 1
  /\ wpc = [w \in Workers |-> "exited"]
  /\ wid = [w \in Workers |-> 0]
  /\ wok = [w \in Workers |-> FALSE]
  /\ wobs = [w \in Workers |-> FALSE]
  /\ werr = [w \in Workers |-> FALSE]
  /\ stpc = [k \in StartCalls |-> IF k = 1 THEN "done" ELSE "init"]
  /\ \E s \in Callers :
        /\ cpc = [c \in Callers |-> IF c = s THEN "stopDrain" ELSE "idle"]
        /\ cs = [c \in Callers |-> IF c = s THEN success ELSE 0]
        /\ cf = [c \in Callers |-> IF c = s THEN failed ELSE 0]
  /\ cafter = [c \in Callers |-> FALSE]
  /\ cfin = [c \in Callers |-> FALSE]
  /\ cdue = [c \in Callers |-> FALSE]
  /\ cacc = [c \in Callers |-> <<>>]
  /\ timedOut = FALSE
  /\ returned = [i \in AttemptIds |-> 0]
  /\ emitted = {}
  /\ errorTagged = {}
  /\ stopResult = NoStop
  /\ stopWins = 1
  /\ stopNoops = FALSE

NextVerdict == \E c \in Callers : StopReturnWith(c, 0..MaxSuccessRate)

SpecVerdict == InitVerdict /\ [][NextVerdict]_vars

(* ------------------------------ prepare -------------------------------- *)

\* Largest numberOfRequests a prepare request is drawn with.
MaxPrepareRequests == 3

\* Durations (ms) a prepare request is drawn with.
Durations == {-1, 0, 1, 2, 1000, 2000}

\* 24 * time.Hour in milliseconds.
DayMs == 24 * 3600 * 1000

\* time.Millisecond in nanoseconds.
MsNs == 1000000

\* FIXED_AMOUNT Prepare: state.DelayBetweenRequests, as whole milliseconds
\* and the nanoseconds beyond them, from the duration (ms) and the number
\* of requests: uint64(duration) / numberOfRequests on nanoseconds.
DelayBetweenRequests(duration, n) ==
  IF n = 1 THEN [ms |-> DayMs, ns |-> 0]
  ELSE [ms |-> duration \div n, ns |-> ((duration % n) * MsNs) \div n]

\* How prepare ends: "error" for a returned error, "configError" for a
\* PrepareResult carrying an Error, "ok" when the checker was created and
\* stored.
PrepareOutcome(rq) ==
  IF rq.duration <= 0 THEN "error"
  ELSE IF rq.numberOfRequests = 0 THEN "error"
  ELSE IF DelayBetweenRequests(rq.duration, rq.numberOfRequests).ms < 1
    THEN "configError"
  ELSE IF ~rq.statusCodeValid THEN "configError"
  ELSE IF ~rq.headersValid THEN "error"
  ELSE IF rq.url # "ok" THEN "error"
  ELSE "ok"

(* A prepare that stores the checker before the request is validated.     *)
PrepareFixedAmountEager ==
  /\ prepared.result = "none"
  /\ prepared.request.mode = "FIXED_AMOUNT"
  /\ LET rq == prepared.request
         outcome == PrepareOutcome(rq)
     IN /\ prepared' =
             [prepared EXCEPT
                !.result = outcome,
                !.delay = IF rq.duration > 0 /\ rq.numberOfRequests > 0
                            THEN DelayBetweenRequests(rq.duration,
                                                      rq.numberOfRequests)
                            ELSE @]
        /\ registered' = TRUE
        /\ maxRequests' = IF outcome = "ok" THEN rq.numberOfRequests ELSE 0
  /\ UNCHANGED <<metricsCap, expectsError, attempt, observed, httpCheckers, bandwidthVars, resolution,
                 maxConcurrent,
                 engineVars,
                 workerVars, stpc, callerVars, timedOut, historyVars>>

(* httpCheckActionFixedAmount.Prepare followed by prepare: the request is  *)
(* validated in the order of the code; only when every check passed is     *)
(* the checker created (newHttpChecker) and stored in httpCheckers.        *)
PrepareFixedAmount ==
  /\ prepared.result = "none"
  /\ prepared.request.mode = "FIXED_AMOUNT"
  /\ LET rq == prepared.request
         outcome == PrepareOutcome(rq)
     IN /\ prepared' =
             [prepared EXCEPT
                !.result = outcome,
                !.delay = IF rq.duration > 0 /\ rq.numberOfRequests > 0
                            THEN DelayBetweenRequests(rq.duration,
                                                      rq.numberOfRequests)
                            ELSE @]
        /\ registered' = IF outcome = "ok" THEN TRUE ELSE registered
        /\ maxRequests' = IF outcome = "ok" THEN rq.numberOfRequests ELSE 0
  /\ UNCHANGED <<metricsCap, expectsError, attempt, observed, httpCheckers, bandwidthVars, resolution,
                 maxConcurrent,
                 engineVars,
                 workerVars, stpc, callerVars, timedOut, historyVars>>

\* requestsPerSecond values a PERIODIC prepare request is drawn with.
Rates == {0, 1, 2, 3, 1000, 1001, 2000}

\* time.Second in nanoseconds.
SecondNs == 1000000000

\* A whole-millisecond delay.
GetDelayBetweenRequestsInMs(requestsPerSecond) ==
  IF requestsPerSecond > 0
    THEN [ms |-> (SecondNs \div MsNs) \div requestsPerSecond, ns |-> 0]
    ELSE [ms |-> SecondNs \div MsNs, ns |-> 0]

\* getDelayBetweenRequests(requestsPerSecond), as whole milliseconds and
\* the nanoseconds beyond them.
GetDelayBetweenRequests(requestsPerSecond) ==
  IF requestsPerSecond > 0
    THEN [ms |-> (SecondNs \div requestsPerSecond) \div MsNs,
          ns |-> (SecondNs \div requestsPerSecond) % MsNs]
    ELSE [ms |-> SecondNs \div MsNs, ns |-> 0]

\* How a PERIODIC prepare ends.
PreparePeriodicallyOutcome(rq) ==
  IF GetDelayBetweenRequests(rq.requestsPerSecond).ms < 1 THEN "configError"
  ELSE IF ~rq.statusCodeValid THEN "configError"
  ELSE IF ~rq.headersValid THEN "error"
  ELSE IF rq.url # "ok" THEN "error"
  ELSE "ok"

(* httpCheckActionPeriodically.Prepare followed by prepare: the delay is   *)
(* derived from requestsPerSecond and checked against one millisecond      *)
(* before the shared prepare validates the rest and stores the checker,    *)
(* whose metric buffer holds twice requestsPerSecond.                      *)
PreparePeriodically ==
  /\ prepared.result = "none"
  /\ prepared.request.mode = "PERIODIC"
  /\ LET rq == prepared.request
         outcome == PreparePeriodicallyOutcome(rq)
     IN /\ prepared' =
             [prepared EXCEPT
                !.result = outcome,
                !.delay = GetDelayBetweenRequests(rq.requestsPerSecond)]
        /\ registered' = IF outcome = "ok" THEN TRUE ELSE registered
        /\ metricsCap' = IF outcome = "ok" THEN rq.requestsPerSecond * 2
                         ELSE metricsCap
  /\ UNCHANGED <<maxRequests, expectsError, attempt, observed, httpCheckers, bandwidthVars, resolution,
                 maxConcurrent,
                 engineVars, workerVars, stpc, callerVars, timedOut,
                 historyVars>>

(* No checker exists yet for the execution id; a FIXED_AMOUNT or a         *)
(* PERIODIC prepare request has arrived.                                   *)
InitPrepare ==
  /\ prepared \in [result : {"none"},
                   delay : {[ms |-> 0, ns |-> 0]},
                   request : [mode : {"FIXED_AMOUNT"},
                              duration : Durations,
                              numberOfRequests : 0..MaxPrepareRequests,
                              requestsPerSecond : {0},
                              statusCodeValid : BOOLEAN,
                              headersValid : BOOLEAN,
                              url : {"ok", "missing", "unparseable"}]
                        \cup
                             [mode : {"PERIODIC"},
                              duration : {1000},
                              numberOfRequests : {0},
                              requestsPerSecond : Rates,
                              statusCodeValid : BOOLEAN,
                              headersValid : BOOLEAN,
                              url : {"ok", "missing", "unparseable"}]]
  /\ observed = {}
  /\ NoOtherCheckers
  /\ maxConcurrent = MaxConcurrent
  /\ resolution = NoResolution
  /\ maxRequests = 0
  /\ metricsCap = 0
  /\ expectsError = FALSE
  /\ attempt = NoAttempt
  /\ registered = FALSE
  /\ work = 0
  /\ workClosed = FALSE
  /\ cancelled = FALSE
  /\ metrics = <<>>
  /\ sendq = <<>>
  /\ requested = 0 /\ started = 0 /\ success = 0 /\ failed = 0
  /\ wg = 0
  /\ spawn = 1
  /\ wpc = [w \in Workers |-> "unborn"]
  /\ wid = [w \in Workers |-> 0]
  /\ wok = [w \in Workers |-> FALSE]
  /\ wobs = [w \in Workers |-> FALSE]
  /\ werr = [w \in Workers |-> FALSE]
  /\ stpc = [k \in StartCalls |-> "init"]
  /\ cpc = [c \in Callers |-> "idle"]
  /\ cs = [c \in Callers |-> 0]
  /\ cf = [c \in Callers |-> 0]
  /\ cafter = [c \in Callers |-> FALSE]
  /\ cfin = [c \in Callers |-> FALSE]
  /\ cdue = [c \in Callers |-> FALSE]
  /\ cacc = [c \in Callers |-> <<>>]
  /\ timedOut = FALSE
  /\ returned = [i \in AttemptIds |-> 0]
  /\ emitted = {}
  /\ errorTagged = {}
  /\ stopResult = NoStop
  /\ stopWins = 0
  /\ stopNoops = FALSE

(* prepare, then the start the framework makes for the execution id; a     *)
(* start is made only once prepare has returned.                           *)
NextPrepare ==
  \/ PrepareFixedAmount
  \/ PreparePeriodically
  \/ prepared.result # "none" /\ StartStep(1)

SpecPrepare == InitPrepare /\ [][NextPrepare]_vars

(* ---------------------- the status-code resolver ----------------------- *)

\* Strings are sequences of one-character strings.
DigitChars == <<"0", "1", "2", "3", "4", "5", "6", "7", "8", "9">>

IsDigit(ch) == \E d \in 1..10 : DigitChars[d] = ch

DigitValue(ch) == (CHOOSE d \in 1..10 : DigitChars[d] = ch) - 1

\* strings.Trim(s, " "): leading spaces removed.
RECURSIVE TrimLeft(_)
TrimLeft(s) ==
  IF Len(s) > 0 /\ Head(s) = " " THEN TrimLeft(Tail(s)) ELSE s

\* strings.Trim(s, " "): trailing spaces removed.
RECURSIVE TrimRight(_)
TrimRight(s) ==
  IF Len(s) > 0 /\ s[Len(s)] = " "
    THEN TrimRight(SubSeq(s, 1, Len(s) - 1)) ELSE s

Trim(s) == TrimRight(TrimLeft(s))

\* strings.Contains(s, ch) for a one-character ch.
Contains(s, ch) == \E i \in 1..Len(s) : s[i] = ch

\* strings.Split(s, sep) for a one-character sep: the pieces between the
\* separators, n separators giving n + 1 pieces, empty pieces included.
RECURSIVE SplitFrom(_, _, _, _)
SplitFrom(s, sep, piece, pieces) ==
  IF Len(s) = 0 THEN Append(pieces, piece)
  ELSE IF Head(s) = sep THEN SplitFrom(Tail(s), sep, <<>>, Append(pieces, piece))
  ELSE SplitFrom(Tail(s), sep, Append(piece, Head(s)), pieces)

Split(s, sep) == SplitFrom(s, sep, <<>>, <<>>)

\* The value of a string of decimal digits, read from the left.
RECURSIVE DigitsValue(_, _)
DigitsValue(s, acc) ==
  IF Len(s) = 0 THEN acc ELSE DigitsValue(Tail(s), acc * 10 + DigitValue(Head(s)))

\* strconv.Atoi(s): an optional sign followed by one or more decimal
\* digits; anything else is an error.
Atoi(s) ==
  LET signed == Len(s) > 0 /\ Head(s) \in {"+", "-"}
      digits == IF signed THEN Tail(s) ELSE s
  IN IF Len(digits) = 0 \/ \E i \in 1..Len(digits) : ~IsDigit(digits[i])
       THEN [err |-> TRUE, n |-> 0]
       ELSE [err |-> FALSE,
             n |-> IF signed /\ Head(s) = "-" THEN 0 - DigitsValue(digits, 0)
                   ELSE DigitsValue(digits, 0)]

\* The decimal digits of a natural number, most significant first.
RECURSIVE NatDigits(_)
NatDigits(n) ==
  IF n < 10 THEN <<DigitChars[n + 1]>>
  ELSE Append(NatDigits(n \div 10), DigitChars[(n % 10) + 1])

\* A numeral with a leading zero.
ItoaPadded(n) == <<"0">> \o NatDigits(n)

\* strconv.Itoa(n).
Itoa(n) == IF n < 0 THEN <<"-">> \o NatDigits(0 - n) ELSE NatDigits(n)

\* The lowest and highest status codes the resolver accepts.
MinStatusCode == 100
MaxStatusCode == 599

\* The token for a transport error.
ErrorToken == <<"e", "r", "r", "o", "r">>

\* A range loop that leaves out the upper end.
RECURSIVE RangeCodesExclusive(_, _, _)
RangeCodesExclusive(i, endCode, acc) ==
  IF i >= endCode THEN [err |-> FALSE, codes |-> acc]
  ELSE IF i < MinStatusCode \/ i > MaxStatusCode
    THEN [err |-> TRUE, codes |-> <<>>]
  ELSE RangeCodesExclusive(i + 1, endCode, Append(acc, Itoa(i)))

\* `for i := startCode; i <= endCode; i++`: the first code outside
\* 100..599 ends the resolution with an error, every other one is appended.
RECURSIVE RangeCodes(_, _, _)
RangeCodes(i, endCode, acc) ==
  IF i > endCode THEN [err |-> FALSE, codes |-> acc]
  ELSE IF i < MinStatusCode \/ i > MaxStatusCode
    THEN [err |-> TRUE, codes |-> <<>>]
  ELSE RangeCodes(i + 1, endCode, Append(acc, Itoa(i)))

\* One `code` of the loop over the ';'-separated items, the codes so far
\* being acc.
ResolveItem(code, acc) ==
  IF Contains(code, "-")
    THEN LET rangeParts == Split(code, "-")
         IN IF Len(rangeParts) # 2 THEN [err |-> TRUE, codes |-> <<>>]
            ELSE IF Atoi(rangeParts[1]).err THEN [err |-> TRUE, codes |-> <<>>]
            ELSE IF Atoi(rangeParts[2]).err THEN [err |-> TRUE, codes |-> <<>>]
            ELSE RangeCodes(Atoi(rangeParts[1]).n, Atoi(rangeParts[2]).n, acc)
  ELSE IF Len(code) = 0 THEN [err |-> TRUE, codes |-> <<>>]
  ELSE IF code = ErrorToken THEN [err |-> FALSE, codes |-> Append(acc, ErrorToken)]
  ELSE IF Atoi(code).err THEN [err |-> TRUE, codes |-> <<>>]
  ELSE IF Atoi(code).n < MinStatusCode \/ Atoi(code).n > MaxStatusCode
    THEN [err |-> TRUE, codes |-> <<>>]
  ELSE [err |-> FALSE, codes |-> Append(acc, Itoa(Atoi(code).n))]

\* The loop over the items: the first error is returned with no codes.
RECURSIVE ResolveItems(_, _)
ResolveItems(items, acc) ==
  IF Len(items) = 0 THEN [err |-> FALSE, codes |-> acc]
  ELSE LET r == ResolveItem(Head(items), acc)
       IN IF r.err THEN r ELSE ResolveItems(Tail(items), r.codes)

\* resolveStatusCodeExpression(statusCodes).
ResolveStatusCodeExpression(statusCodes) ==
  ResolveItems(Split(Trim(statusCodes), ";"), <<>>)

\* Most items an expression is built from.
MaxItems == 2

\* A three-digit decimal numeral.
Decimal3(n) ==
  <<DigitChars[(n \div 100) + 1], DigitChars[((n \div 10) % 10) + 1],
    DigitChars[(n % 10) + 1]>>

\* Items written as a single number lo, or as a range lo-hi.
NumberItems ==
  {[kind |-> "single", lo |-> n, hi |-> n, text |-> Decimal3(n)] :
     n \in {100, 200, 599, 600}}
  \cup {[kind |-> "single", lo |-> 99, hi |-> 99, text |-> <<"9", "9">>]}
  \cup {[kind |-> "range", lo |-> b[1], hi |-> b[2],
         text |-> Decimal3(b[1]) \o <<"-">> \o Decimal3(b[2])] :
          b \in {<<200, 202>>, <<599, 599>>, <<100, 101>>, <<201, 200>>,
                 <<598, 600>>, <<600, 601>>}}
  \cup {[kind |-> "range", lo |-> 99, hi |-> 100,
         text |-> <<"9", "9", "-", "1", "0", "0">>]}

\* Items that are neither: empty, not numeric, or with a malformed range.
OtherItems ==
  {[kind |-> "other", lo |-> 0, hi |-> 0, text |-> x] :
     x \in {<<>>, <<"a", "b", "c">>, <<"2", "0", "x">>,
            <<"2", "0", "0", "-">>, <<"-", "2", "0", "0">>,
            <<"2", "0", "0", "-", "2", "0", "1", "-", "2", "0", "2">>}}

ErrorItem == [kind |-> "error", lo |-> 0, hi |-> 0, text |-> ErrorToken]

ItemPool == NumberItems \cup OtherItems \cup {ErrorItem}

\* The items joined by ';'.
RECURSIVE Join(_)
Join(items) ==
  IF Len(items) = 0 THEN <<>>
  ELSE IF Len(items) = 1 THEN items[1].text
  ELSE items[1].text \o <<";">> \o Join(Tail(items))

\* Status codes a set of expected codes is drawn from.
ExpectedPool == {100, 200, 404, 599}

\* The sets of expected codes: status codes, and whether "error" is one.
ExpectedSets == [codes : SUBSET ExpectedPool, error : BOOLEAN]

\* The canonical serialization of a set of expected codes: the status codes
\* in ascending order, then "error", as items to be joined by ';'.
RECURSIVE RenderCodes(_)
RenderCodes(S) ==
  IF S = {} THEN <<>>
  ELSE LET n == CHOOSE x \in S : \A y \in S : x <= y
       IN <<[kind |-> "single", lo |-> n, hi |-> n, text |-> Decimal3(n)]>>
            \o RenderCodes(S \ {n})

Render(S) ==
  RenderCodes(S.codes) \o (IF S.error THEN <<ErrorItem>> ELSE <<>>)

(* A status-code expression arrives: up to MaxItems items of the pool      *)
(* joined by ';', or the serialization of a set of expected codes.         *)
InitResolve ==
  /\ \/ \E items \in UNION {[1..n -> ItemPool] : n \in 1..MaxItems} :
          resolution = [items |-> items, expression |-> Join(items),
                        rendered |-> FALSE,
                        set |-> [codes |-> {}, error |-> FALSE],
                        state |-> "none", codes |-> <<>>]
     \/ \E S \in ExpectedSets :
          resolution = [items |-> Render(S), expression |-> Join(Render(S)),
                        rendered |-> TRUE, set |-> S,
                        state |-> "none", codes |-> <<>>]
  /\ attempt = NoAttempt
  /\ prepared = PreparedOk
  /\ observed = {}
  /\ NoOtherCheckers
  /\ maxConcurrent = MaxConcurrent
  /\ maxRequests = 0
  /\ metricsCap = 0
  /\ expectsError = FALSE
  /\ registered = FALSE
  /\ work = 0
  /\ workClosed = FALSE
  /\ cancelled = FALSE
  /\ metrics = <<>>
  /\ sendq = <<>>
  /\ requested = 0 /\ started = 0 /\ success = 0 /\ failed = 0
  /\ wg = 0
  /\ spawn = 1
  /\ wpc = [w \in Workers |-> "unborn"]
  /\ wid = [w \in Workers |-> 0]
  /\ wok = [w \in Workers |-> FALSE]
  /\ wobs = [w \in Workers |-> FALSE]
  /\ werr = [w \in Workers |-> FALSE]
  /\ stpc = [k \in StartCalls |-> "init"]
  /\ cpc = [c \in Callers |-> "idle"]
  /\ cs = [c \in Callers |-> 0]
  /\ cf = [c \in Callers |-> 0]
  /\ cafter = [c \in Callers |-> FALSE]
  /\ cfin = [c \in Callers |-> FALSE]
  /\ cdue = [c \in Callers |-> FALSE]
  /\ cacc = [c \in Callers |-> <<>>]
  /\ timedOut = FALSE
  /\ returned = [i \in AttemptIds |-> 0]
  /\ emitted = {}
  /\ errorTagged = {}
  /\ stopResult = NoStop
  /\ stopWins = 0
  /\ stopNoops = FALSE

(* prepare: resolveStatusCodeExpression on the configured expression; the  *)
(* codes become state.ExpectedStatusCodes, an error ends prepare.          *)
ResolveExpression ==
  /\ resolution.state = "none"
  /\ LET r == ResolveStatusCodeExpression(resolution.expression)
     IN resolution' = [resolution EXCEPT
                         !.state = IF r.err THEN "error" ELSE "ok",
                         !.codes = r.codes]
  /\ UNCHANGED <<maxRequests, metricsCap, expectsError, attempt, prepared,
                 observed, httpCheckers, bandwidthVars, maxConcurrent, registered, engineVars, workerVars,
                 stpc,
                 callerVars, timedOut, historyVars>>

NextResolve == ResolveExpression

SpecResolve == InitResolve /\ [][NextResolve]_vars

(* ----------------------- the bandwidth variant -------------------------- *)

\* strings.ToLower on the letters bitrate strings are written with.
ToLowerChar(ch) ==
  CASE ch = "B" -> "b" [] ch = "I" -> "i" [] ch = "T" -> "t"
    [] ch = "K" -> "k" [] ch = "M" -> "m" [] ch = "G" -> "g"
    [] ch = "P" -> "p" [] ch = "S" -> "s" [] OTHER -> ch

ToLower(s) == [i \in 1..Len(s) |-> ToLowerChar(s[i])]

\* The longest prefix of s made of decimal digits.
RECURSIVE LeadingDigits(_)
LeadingDigits(s) ==
  IF Len(s) > 0 /\ IsDigit(Head(s)) THEN <<Head(s)>> \o LeadingDigits(Tail(s))
  ELSE <<>>

\* s without its first n characters.
Drop(s, n) == SubSeq(s, n + 1, Len(s))

\* The units of the bitrate pattern with their multipliers, each a power
\* of ten, times 8 for the byte units.
Units ==
  {[name |-> <<"b", "i", "t">>, pow |-> 0, bytes |-> FALSE],
   [name |-> <<"k", "b", "i", "t">>, pow |-> 3, bytes |-> FALSE],
   [name |-> <<"m", "b", "i", "t">>, pow |-> 6, bytes |-> FALSE],
   [name |-> <<"g", "b", "i", "t">>, pow |-> 9, bytes |-> FALSE],
   [name |-> <<"t", "b", "i", "t">>, pow |-> 12, bytes |-> FALSE],
   [name |-> <<"b", "p", "s">>, pow |-> 0, bytes |-> TRUE],
   [name |-> <<"k", "b", "p", "s">>, pow |-> 3, bytes |-> TRUE],
   [name |-> <<"m", "b", "p", "s">>, pow |-> 6, bytes |-> TRUE],
   [name |-> <<"g", "b", "p", "s">>, pow |-> 9, bytes |-> TRUE],
   [name |-> <<"t", "b", "p", "s">>, pow |-> 12, bytes |-> TRUE]}

RECURSIVE Pow10(_)
Pow10(k) == IF k = 0 THEN 1 ELSE 10 * Pow10(k - 1)

\* The match of `^(\d+(?:\.\d+)?)\s*(unit)?$`: the integer digits, the
\* fraction digits when a '.' with digits follows, optional spaces, and an
\* optional unit up to the end of the string.
MatchBitrate(s) ==
  LET int == LeadingDigits(s)
      afterInt == Drop(s, Len(int))
      frac == IF Len(afterInt) > 0 /\ Head(afterInt) = "."
                THEN LeadingDigits(Tail(afterInt)) ELSE <<>>
      afterNum == IF Len(frac) > 0 THEN Drop(afterInt, Len(frac) + 1)
                  ELSE afterInt
      unit == TrimLeft(afterNum)
  IN [matches |-> /\ Len(int) > 0
                  /\ (Len(unit) = 0 \/ \E u \in Units : u.name = unit),
      int |-> int, frac |-> frac, unit |-> unit]

\* int64(value * multiplier) for the matched number and unit; the empty
\* unit is "bit".  The product is the exact one, which float64 yields for
\* the numbers followed here (their fractions are binary fractions).
BitrateValue(mt) ==
  LET u == IF Len(mt.unit) = 0
             THEN [name |-> <<"b", "i", "t">>, pow |-> 0, bytes |-> FALSE]
             ELSE CHOOSE x \in Units : x.name = mt.unit
      scaled == DigitsValue(mt.int \o mt.frac, 0) * Pow10(u.pow)
                  * (IF u.bytes THEN 8 ELSE 1)
  IN scaled \div Pow10(Len(mt.frac))

\* parseBitrate(s): the empty string and a string that does not match the
\* pattern are errors.
ParseBitrate(s) ==
  IF Len(s) = 0 THEN [err |-> TRUE, bps |-> 0]
  ELSE LET mt == MatchBitrate(ToLower(Trim(s)))
       IN IF ~mt.matches THEN [err |-> TRUE, bps |-> 0]
          ELSE [err |-> FALSE, bps |-> BitrateValue(mt)]

\* Threshold strings a bandwidth prepare request is drawn with, each with
\* whether it is a bitrate and the bits per second it stands for.
Thresholds ==
  {[text |-> <<>>, given |-> FALSE, valid |-> FALSE, bps |-> 0],
   [text |-> <<"a", "b", "c">>, given |-> TRUE, valid |-> FALSE, bps |-> 0],
   [text |-> <<"-", "5", "m", "b", "i", "t">>, given |-> TRUE,
    valid |-> FALSE, bps |-> 0],
   [text |-> <<"1", ".", "k", "b", "i", "t">>, given |-> TRUE,
    valid |-> FALSE, bps |-> 0],
   [text |-> <<"1", "0", "x", "b", "i", "t">>, given |-> TRUE,
    valid |-> FALSE, bps |-> 0],
   [text |-> <<"0">>, given |-> TRUE, valid |-> TRUE, bps |-> 0],
   [text |-> <<"1", "0">>, given |-> TRUE, valid |-> TRUE, bps |-> 10],
   [text |-> <<"1", "0", "k", "b", "i", "t">>, given |-> TRUE,
    valid |-> TRUE, bps |-> 10000],
   [text |-> <<" ", "1", "0", "k", "b", "i", "t", " ">>, given |-> TRUE,
    valid |-> TRUE, bps |-> 10000],
   [text |-> <<"1", ".", "5", "k", "b", "i", "t">>, given |-> TRUE,
    valid |-> TRUE, bps |-> 1500],
   [text |-> <<"1", "k", "b", "p", "s">>, given |-> TRUE, valid |-> TRUE,
    bps |-> 8000],
   [text |-> <<"1", " ", "m", "b", "i", "t">>, given |-> TRUE,
    valid |-> TRUE, bps |-> 1000000],
   [text |-> <<"2", "M", "B", "I", "T">>, given |-> TRUE, valid |-> TRUE,
    bps |-> 2000000],
   [text |-> <<"1", "g", "b", "i", "t">>, given |-> TRUE, valid |-> TRUE,
    bps |-> 1000000000]}

\* A bandwidth prepare that does not compare the two thresholds.
PrepareBandwidthResultUnordered(rq) ==
  LET min == ParseBitrate(rq.minBandwidth.text)
      max == ParseBitrate(rq.maxBandwidth.text)
      noMin == Len(rq.minBandwidth.text) = 0
      noMax == Len(rq.maxBandwidth.text) = 0
      minBps == IF noMin \/ min.err THEN 0 ELSE min.bps
      maxBps == IF noMax \/ (~noMin /\ min.err) \/ max.err THEN 0 ELSE max.bps
      outcome ==
        IF rq.url # "ok" THEN "error"
        ELSE IF ~rq.headersValid THEN "error"
        ELSE IF noMin /\ noMax THEN "configError"
        ELSE IF ~noMin /\ min.err THEN "configError"
        ELSE IF ~noMax /\ max.err THEN "configError"
        ELSE "ok"
  IN [result |-> outcome, minBps |-> minBps, maxBps |-> maxBps,
      stored |-> outcome = "ok"]

\* httpCheckActionBandwidth.Prepare in the order of its checks: how it
\* ends ("error" a returned error, "configError" a PrepareResult with an
\* Error, "ok"), the thresholds parsed into the state, and whether the
\* checker was stored in bandwidthCheckers.
PrepareBandwidthResult(rq) ==
  LET min == ParseBitrate(rq.minBandwidth.text)
      max == ParseBitrate(rq.maxBandwidth.text)
      noMin == Len(rq.minBandwidth.text) = 0
      noMax == Len(rq.maxBandwidth.text) = 0
      minBps == IF noMin \/ min.err THEN 0 ELSE min.bps
      maxBps == IF noMax \/ (~noMin /\ min.err) \/ max.err THEN 0 ELSE max.bps
      outcome ==
        IF rq.url # "ok" THEN "error"
        ELSE IF ~rq.headersValid THEN "error"
        ELSE IF noMin /\ noMax THEN "configError"
        ELSE IF ~noMin /\ min.err THEN "configError"
        ELSE IF ~noMax /\ max.err THEN "configError"
        ELSE IF minBps > 0 /\ maxBps > 0 /\ minBps > maxBps THEN "configError"
        ELSE "ok"
  IN [result |-> outcome, minBps |-> minBps, maxBps |-> maxBps,
      stored |-> outcome = "ok"]

(* httpCheckActionBandwidth.Prepare.                                       *)
PrepareBandwidth ==
  /\ prepared.result = "none"
  /\ LET r == PrepareBandwidthResult(prepared.request)
     IN prepared' = [prepared EXCEPT !.result = r.result,
                                     !.minBps = r.minBps,
                                     !.maxBps = r.maxBps,
                                     !.stored = r.stored]
  /\ UNCHANGED <<maxRequests, metricsCap, expectsError, attempt, observed, httpCheckers, bandwidthVars,
                 resolution, maxConcurrent, registered, engineVars,
                 workerVars, stpc, callerVars, timedOut, historyVars>>

(* No bandwidth checker exists yet for the execution id; a bandwidth       *)
(* prepare request has arrived.                                            *)
InitBandwidth ==
  /\ prepared \in [result : {"none"},
                   minBps : {0}, maxBps : {0}, stored : {FALSE},
                   request : [url : {"ok", "missing", "unparseable"},
                              headersValid : BOOLEAN,
                              minBandwidth : Thresholds,
                              maxBandwidth : Thresholds]]
  /\ attempt = NoAttempt
  /\ resolution = NoResolution
  /\ observed = {}
  /\ NoOtherCheckers
  /\ maxConcurrent = MaxConcurrent
  /\ maxRequests = 0
  /\ metricsCap = 0
  /\ expectsError = FALSE
  /\ registered = FALSE
  /\ work = 0
  /\ workClosed = FALSE
  /\ cancelled = FALSE
  /\ metrics = <<>>
  /\ sendq = <<>>
  /\ requested = 0 /\ started = 0 /\ success = 0 /\ failed = 0
  /\ wg = 0
  /\ spawn = 1
  /\ wpc = [w \in Workers |-> "unborn"]
  /\ wid = [w \in Workers |-> 0]
  /\ wok = [w \in Workers |-> FALSE]
  /\ wobs = [w \in Workers |-> FALSE]
  /\ werr = [w \in Workers |-> FALSE]
  /\ stpc = [k \in StartCalls |-> "init"]
  /\ cpc = [c \in Callers |-> "idle"]
  /\ cs = [c \in Callers |-> 0]
  /\ cf = [c \in Callers |-> 0]
  /\ cafter = [c \in Callers |-> FALSE]
  /\ cfin = [c \in Callers |-> FALSE]
  /\ cdue = [c \in Callers |-> FALSE]
  /\ cacc = [c \in Callers |-> <<>>]
  /\ timedOut = FALSE
  /\ returned = [i \in AttemptIds |-> 0]
  /\ emitted = {}
  /\ errorTagged = {}
  /\ stopResult = NoStop
  /\ stopWins = 0
  /\ stopNoops = FALSE

NextBandwidth == PrepareBandwidth

SpecBandwidth == InitBandwidth /\ [][NextBandwidth]_vars

(* ----------------------- pools of every size --------------------------- *)

(* The engine created for a request with any maxConcurrent up to the       *)
(* largest: with maxConcurrent = 1 one worker, and a work channel that     *)
(* holds one ticket.                                                       *)
InitPool == Created /\ observed = {} /\ maxConcurrent \in 1..MaxConcurrent

SpecPool == InitPool /\ [][Next]_vars

(* ------------------------- status followed ----------------------------- *)

\* The caller whose status calls are followed.
Poller == "c1"

(* The engine polled by one caller whose status calls are followed from    *)
(* their start, while another caller may stop it.                          *)
InitStatus ==
  Created /\ observed = {Poller} /\ maxConcurrent = MaxConcurrent

NextStatus ==
  \/ SpawnWorker
  \/ \E w \in Workers : WorkerStep(w)
  \/ StartStep(1)
  \/ SchedulerStep(1)
  \/ DeadlinePasses
  \/ \E c \in observed : StatusStep(c) \/ DrainOne(c)
  \/ \E c \in Callers \ observed : StopStep(c) \/ DrainOne(c)

SpecStatus == InitStatus /\ [][NextStatus]_vars

(* -------------------------- start called twice ------------------------- *)

(* The engine with start called up to twice and one stop; status is not    *)
(* polled and the outcome of every attempt is open.                        *)
NextTwoStarts ==
  \/ SpawnWorker
  \/ \E w \in Workers : WorkerStep(w)
  \/ \E k \in StartCalls : StartStep(k) \/ SchedulerStep(k)
  \/ \E c \in Callers : StopStep(c) \/ DrainOne(c)

SpecTwoStarts == Init /\ [][NextTwoStarts]_vars

(* ----------------------- one attempt alone ------------------------------ *)

\* Status codes a response is followed with, as strconv.Itoa renders them.
StatusCodes == {"200", "500"}

\* Entries state.ExpectedStatusCodes is drawn from.
ExpectedEntries == {"error", "200"}

\* Largest response time and limit (in ms) the time check is followed for.
MaxResponseTime == 3

\* slices.Contains(state.ExpectedStatusCodes, entry).
StatusWasExpected(expected, entry) == entry \in expected

\* The outcome of reading and checking the response of the fixed attempt.
AttemptBodyOutcome ==
  BodyOutcome(IF attempt.body = "unreadable" THEN "error" ELSE "ok",
              StatusWasExpected(attempt.expected, attempt.code),
              attempt.checksBody,
              attempt.body = "empty",
              attempt.body = "match",
              ResponseTimeWasSuccessful(attempt.mode, attempt.responseTime,
                                        attempt.limit))

\* The worker that performs the fixed attempt.
AttemptWorker == 1

(* The engine after start, its first ticket taken by a worker that has     *)
(* counted the attempt as started and is inside httpClient.Do; what the    *)
(* server answers and what the configuration expects is fixed in advance.  *)
InitAttempt ==
  /\ attempt \in [fixed : {TRUE},
                  outcome : {"response", "error"},
                  expected : SUBSET ExpectedEntries,
                  code : StatusCodes,
                  checksBody : BOOLEAN,
                  body : {"match", "nomatch", "empty", "unreadable"},
                  mode : {"NONE", "SHORTER_THAN", "LONGER_THAN"},
                  responseTime : 1..MaxResponseTime,
                  limit : 1..MaxResponseTime]
  /\ maxRequests = 0
  /\ metricsCap = 2
  /\ expectsError = StatusWasExpected(attempt.expected, "error")
  /\ prepared = PreparedOk
  /\ resolution = NoResolution
  /\ observed = {}
  /\ NoOtherCheckers
  /\ maxConcurrent = MaxConcurrent
  /\ registered = TRUE
  /\ work = 0
  /\ workClosed = FALSE
  /\ cancelled = FALSE
  /\ metrics = <<>>
  /\ sendq = <<>>
  /\ requested = 1 /\ started = 1 /\ success = 0 /\ failed = 0
  /\ wg = MaxConcurrent
  /\ spawn = MaxConcurrent + 1
  /\ wpc = [w \in Workers |-> IF w = AttemptWorker THEN "do" ELSE "recv"]
  /\ wid = [w \in Workers |-> IF w = AttemptWorker THEN 1 ELSE 0]
  /\ wok = [w \in Workers |-> FALSE]
  /\ wobs = [w \in Workers |-> FALSE]
  /\ werr = [w \in Workers |-> FALSE]
  /\ stpc = [k \in StartCalls |-> IF k = 1 THEN "loop" ELSE "init"]
  /\ cpc = [c \in Callers |-> "idle"]
  /\ cs = [c \in Callers |-> 0]
  /\ cf = [c \in Callers |-> 0]
  /\ cafter = [c \in Callers |-> FALSE]
  /\ cfin = [c \in Callers |-> FALSE]
  /\ cdue = [c \in Callers |-> FALSE]
  /\ cacc = [c \in Callers |-> <<>>]
  /\ timedOut = FALSE
  /\ returned = [i \in AttemptIds |-> 0]
  /\ emitted = {}
  /\ errorTagged = {}
  /\ stopResult = NoStop
  /\ stopWins = 0
  /\ stopNoops = FALSE

NextAttempt ==
  \/ WorkerIOWith(AttemptWorker, attempt.outcome = "error")
  \/ WorkerReadBodyWith(AttemptWorker, AttemptBodyOutcome)
  \/ WorkerSend(AttemptWorker)
  \/ WorkerCount(AttemptWorker)

SpecAttempt == InitAttempt /\ [][NextAttempt]_vars

(* ------------------------------ claims --------------------------------- *)

\* Positions of a caller inside stop, after loadAndDeleteHttpChecker.
InStop == {"stopCancel", "stopWait", "stopSuccess", "stopFailed", "stopDrain"}

\* httpChecker.start has returned: the scheduler goroutine was launched.
StartReturned == stpc[1] \in {"loop", "tickAdd", "closing", "done"}

\* The scheduler goroutine has returned, or start never launched it.
SchedulerExited == \A k \in StartCalls : stpc[k] \in {"init", "failed", "done"}

\* Every worker goroutine startWorkers is to launch has run and returned.
WorkersExited ==
  spawn > MaxConcurrent /\ \A w \in Workers : wpc[w] = "exited"

\* What a status call that has loaded the counters will report as Completed.
Completed(c) ==
  StatusCompleted(maxRequests, cs[c] + cf[c], maxRequests, cafter[c])

\* C1: once start has run, a stop call that has taken the checker from the
\* registry eventually returns its result, whatever the workers are doing
\* and however full the metric buffer is, under fair scheduling.
C1_StopEventuallyReturns ==
  \A c \in Callers :
    (cpc[c] = "stopCancel" /\ StartReturned) ~> stopResult.done

\* C2: an attempt whose I/O observed the cancellation of the context hands
\* no Metric to the metric channel (and so updates no tally afterwards).
C2_CancelledAttemptSilent ==
  \A w \in Workers : wobs[w] => wid[w] \notin emitted

\* C3: in every reachable state started <= requested.
C3_StartedAtMostRequested == started <= requested

\* C4: in every reachable state success + failed <= started, and no step
\* decreases requested, started, success or failed.
C4_CountersConsistent ==
  /\ [](success + failed <= started)
  /\ [][/\ requested' >= requested
        /\ started' >= started
        /\ success' >= success
        /\ failed' >= failed]_vars

C4_Witness == success >= 1 /\ failed >= 1 /\ success + failed = started

\* C5: in FIXED_AMOUNT mode (maxRequests = n >= 1) never more than n tickets
\* are counted and never more than n attempts begun; for n = 1 that is the
\* one immediate request.
C5_AtMostNRequests ==
  maxRequests >= 1 => requested <= maxRequests /\ started <= maxRequests

C7_StopIdempotent ==
  /\ stopWins <= 1
  /\ registered <=> stopWins = 0
  /\ stopNoops => stopWins = 1
  /\ Cardinality({c \in Callers : cpc[c] \in InStop}) <= 1
  /\ stopResult.done => stopWins = 1

C7_Witness ==
  /\ stopNoops
  /\ \E c \in Callers : cpc[c] \in InStop
  /\ \E c \in Callers : cpc[c] = "idle"

\* C8: after stop has returned no further Metric is emitted, no counter
\* changes, and all worker and scheduler goroutines have returned.
C8_QuietAfterStop ==
  stopResult.done =>
    /\ emitted = stopResult.emitted
    /\ <<requested, started, success, failed>> = stopResult.counters
    /\ WorkersExited
    /\ SchedulerExited

\* Occurrences of metric i in the buffer and in the slices of calls that
\* are still draining.
Held(i) ==
  Occurrences(metrics, i)
    + Cardinality({c \in Callers : Occurrences(cacc[c], i) > 0})

\* C9: every Metric handed to the metric channel is, at any moment, in the
\* buffer, in the slice of exactly one call draining it, or was returned by
\* exactly one call: none dropped, none duplicated; the buffer never holds
\* more than its capacity; and it is empty once stop has returned.
C9_MetricsExactlyOnce ==
  /\ \A i \in AttemptIds :
       /\ \A c \in Callers : Occurrences(cacc[c], i) <= 1
       /\ Held(i) + returned[i] = (IF i \in emitted THEN 1 ELSE 0)
  /\ Len(metrics) <= metricsCap
  /\ stopResult.done => metrics = <<>> /\ sendq = <<>>

C9_Witness ==
  /\ stopResult.done
  /\ Cardinality(emitted) = MaxTickets
  /\ \A i \in emitted : returned[i] = 1
  /\ \E c \in Callers : cpc[c] = "statusDrain"

\* C10: with total = success + failed the verdict is "No requests
\* completed" iff total = 0; otherwise it is Failed iff
\* 100 * success < threshold * total and OK iff
\* 100 * success >= threshold * total.
C10_VerdictRule ==
  stopResult.done =>
    LET s == stopResult.success
        total == stopResult.success + stopResult.failed
    IN /\ stopResult.verdict = "NoRequestsCompleted" <=> total = 0
       /\ total > 0 =>
            /\ stopResult.verdict = "Failed" <=>
                 100 * s < stopResult.rate * total
            /\ stopResult.verdict = "OK" <=>
                 100 * s >= stopResult.rate * total

\* The fixed attempt has run to the end of performRequest.
AttemptFinished == wpc[AttemptWorker] = "recv"

\* What the three checks of the fixed attempt's response come to.
AttemptChecksPass ==
  /\ attempt.code \in attempt.expected
  /\ ~attempt.checksBody \/ attempt.body = "match"
  /\ \/ attempt.mode = "NONE"
     \/ attempt.mode = "SHORTER_THAN" /\ attempt.responseTime <= attempt.limit
     \/ attempt.mode = "LONGER_THAN" /\ attempt.responseTime >= attempt.limit

\* C11: an attempt that ends with an HTTP response and is not cancelled
\* increments exactly one of success / failed, by one, once: success iff
\* the status code is expected, the body check passes (or no substring is
\* configured) and the response-time check passes (or the mode is NONE).
C11_ResponseCountedOnce ==
  attempt.outcome = "response" =>
    /\ ~AttemptFinished => success = 0 /\ failed = 0
    /\ AttemptFinished =>
         /\ success + failed = 1
         /\ success = 1 <=> AttemptChecksPass

C11_Witness ==
  /\ attempt.outcome = "response" /\ AttemptFinished
  /\ attempt.checksBody /\ attempt.body = "match"
  /\ attempt.mode = "SHORTER_THAN" /\ attempt.responseTime = attempt.limit
  /\ success = 1

\* C12: an attempt that ends with a transport error other than cancellation
\* emits one Metric, which carries the `error` tag, and increments exactly
\* one counter: success iff "error" is in the expected set; with the
\* expected set {"error"} a transport failure counts as a success and an
\* HTTP 200 response as a failure.
C12_TransportErrorCounted ==
  /\ attempt.outcome = "error" =>
       /\ ~AttemptFinished => success = 0 /\ failed = 0
       /\ AttemptFinished =>
            /\ emitted = {1} /\ errorTagged = {1}
            /\ Len(metrics) = 1
            /\ success + failed = 1
            /\ success = 1 <=> "error" \in attempt.expected
  /\ attempt.expected = {"error"} /\ AttemptFinished =>
       /\ attempt.outcome = "error" => success = 1 /\ failed = 0
       /\ attempt.outcome = "response" /\ attempt.code = "200" =>
            success = 0 /\ failed = 1

C12_Witness ==
  /\ attempt.outcome = "error" /\ attempt.expected = {"error"}
  /\ AttemptFinished /\ success = 1 /\ errorTagged = {1}

\* prepare has returned for a request with a positive duration and at
\* least two requests.
PreparedSeveral ==
  /\ prepared.result \in {"ok", "configError", "error"}
  /\ prepared.request.mode = "FIXED_AMOUNT"
  /\ prepared.request.duration > 0
  /\ prepared.request.numberOfRequests >= 2

\* C13: in FIXED_AMOUNT mode with n >= 2 requests over a duration d the
\* delay between tickets is d / (n - 1), the n-th ticket falling on the end
\* of the interval (d = 2000 ms, n = 3 gives 1000 ms).
C13_DelaySpansInterval ==
  PreparedSeveral =>
    LET d == prepared.request.duration
        n == prepared.request.numberOfRequests
    IN prepared.delay =
         [ms |-> d \div (n - 1), ns |-> ((d % (n - 1)) * MsNs) \div (n - 1)]

\* The start calls whose scheduler goroutine is running.
SchedulersRunning == {k \in StartCalls : stpc[k] \in {"loop", "tickAdd", "closing"}}

\* C14: start is idempotent while the engine has not been stopped: after a
\* second start the engine still has one scheduler and its shutdown
\* proceeds as after a single start (no start call or scheduler panics on
\* the work channel).
C14_StartIdempotent ==
  /\ Cardinality(SchedulersRunning) <= 1
  /\ \A k \in StartCalls : stpc[k] # "panic"

\* C15: start places the first ticket into the work channel immediately,
\* before any tick: the push of a first start finds room in the open
\* channel, so start does not block; nothing is requested before it; and
\* when start returns exactly one ticket has been issued (requested = 1).
C15_FirstTicketImmediate ==
  /\ [](stpc[1] \in {"init", "first"} => requested = 0 /\ work = 0)
  /\ [](stpc[1] = "first" => work < MaxConcurrent /\ ~workClosed)
  /\ [][stpc[1] = "first" /\ stpc'[1] # "first" =>
          stpc'[1] = "firstAdd" /\ work' = 1 /\ requested' = 0]_vars
  /\ [][stpc[1] = "firstAdd" /\ stpc'[1] # "firstAdd" =>
          stpc'[1] = "loop" /\ requested' = 1]_vars

\* The first start has just returned: one ticket requested, still in the
\* work channel.
C15_Witness == stpc[1] = "loop" /\ requested = 1 /\ work = 1 /\ started = 0

C17_CompletedOnceFinished ==
  /\ [](\A c \in Callers :
          cpc[c] = "statusDrain" /\ cfin[c] => Completed(c))
  /\ [][AttemptsFinished(success + failed, maxRequests) =>
          AttemptsFinished(success' + failed', maxRequests')]_vars

\* A status call that began after the attempts had finished, before the
\* deadline, is about to return completed = true.
C17_Witness ==
  \E c \in Callers :
    /\ cpc[c] = "statusDrain" /\ cfin[c] /\ ~timedOut
    /\ success + failed = maxRequests
    /\ Completed(c)

\* C18: in PERIODIC mode every status call returns completed = false, also
\* after the deadline has passed and after attempts have finished.
C18_PeriodicNeverCompleted ==
  \A c \in Callers :
    cpc[c] = "statusDrain" /\ maxRequests = 0 => ~Completed(c)

\* A PERIODIC status call after the deadline, with an attempt finished, is
\* about to return completed = false.
C18_Witness ==
  \E c \in Callers :
    /\ cpc[c] = "statusDrain" /\ maxRequests = 0
    /\ timedOut /\ success + failed > 0
    /\ ~Completed(c)

\* Positions of a caller inside status, after loadHttpChecker.
InStatus == {"statusSuccess", "statusFailed", "statusDrain"}

\* C19: after stop has returned for the execution id the checker is out of
\* the registry, so the lookup of every status call made from then on
\* fails: no caller enters status past the lookup, and none gets metrics.
C19_NoStatusAfterStop ==
  /\ [](stopResult.done => ~registered)
  /\ [][stopResult.done =>
          \A c \in Callers : cpc[c] \notin InStatus => cpc'[c] \notin InStatus]_vars

\* stop has returned with metrics handed out during the run, and a caller
\* is free to call status, whose lookup would fail.
C19_Witness ==
  /\ stopResult.done
  /\ \E c \in Callers : cpc[c] = "idle" /\ ~registered
  /\ emitted # {}

\* The configuration errors of a FIXED_AMOUNT prepare request.
ConfigInvalid(rq) ==
  \/ ~rq.statusCodeValid
  \/ rq.url \in {"missing", "unparseable"}
  \/ ~rq.headersValid
  \/ rq.duration <= 0
  \/ rq.numberOfRequests = 0
  \/ DelayBetweenRequests(rq.duration, rq.numberOfRequests).ms < 1

\* C20: prepare reports an error exactly for a request with a configuration
\* error; then no engine is created or registered, and a following start for
\* the execution id fails at the lookup without issuing a request.
C20_ConfigErrorPreventsStart ==
  /\ prepared.result # "none" /\ prepared.request.mode = "FIXED_AMOUNT" =>
       (prepared.result \in {"error", "configError"}
          <=> ConfigInvalid(prepared.request))
  /\ prepared.result \in {"error", "configError"} =>
       /\ ~registered
       /\ stpc[1] \in {"init", "failed"}
       /\ work = 0 /\ requested = 0 /\ spawn = 1

\* prepare has reported a configuration error and the start that followed
\* has failed.
C20_Witness ==
  /\ prepared.result = "configError"
  /\ ~prepared.request.statusCodeValid
  /\ stpc[1] = "failed"

ItemValid(item) ==
  \/ item.kind = "error"
  \/ /\ item.kind \in {"single", "range"}
     /\ MinStatusCode <= item.lo /\ item.lo <= item.hi
     /\ item.hi <= MaxStatusCode

\* C22: the resolver returns an error, and no codes, for every expression
\* with an item outside the grammar: an empty item, a non-numeric item other
\* than "error", a code outside 100..599, a range lo-hi without
\* 100 <= lo <= hi <= 599.
C22_InvalidExpressionRejected ==
  /\ resolution.state \in {"ok", "error"}
  /\ \/ Len(resolution.items) = 0
     \/ \E i \in 1..Len(resolution.items) : ~ItemValid(resolution.items[i])
  => resolution.state = "error" /\ resolution.codes = <<>>

\* The codes an item of the grammar denotes: "error" the error token, a
\* code its numeral, a range lo-hi the numerals of lo..hi in ascending order.
ItemDenotes(item) ==
  IF item.kind = "error" THEN <<ErrorToken>>
  ELSE [i \in 1..(item.hi - item.lo + 1) |-> Decimal3(item.lo + i - 1)]

RECURSIVE Denotes(_)
Denotes(items) ==
  IF Len(items) = 0 THEN <<>>
  ELSE ItemDenotes(Head(items)) \o Denotes(Tail(items))

\* Every item of the expression conforms to the grammar.
ExpressionValid ==
  /\ Len(resolution.items) > 0
  /\ \A i \in 1..Len(resolution.items) : ItemValid(resolution.items[i])

\* C23: for every valid expression the resolver returns, without error,
\* exactly the codes the expression denotes, item by item: a range lo-hi
\* every integer lo..hi as its decimal string in ascending order, a single
\* code its decimal string, "error" the token "error".
C23_ResolvesDenotedCodes ==
  resolution.state \in {"ok", "error"} /\ ExpressionValid =>
    /\ resolution.state = "ok"
    /\ resolution.codes = Denotes(resolution.items)

\* A valid expression of a proper range and "error" has been resolved.
C23_Witness ==
  /\ resolution.state = "ok"
  /\ Len(resolution.items) = 2
  /\ resolution.items[1].kind = "range"
  /\ resolution.items[1].lo < resolution.items[1].hi
  /\ resolution.items[2].kind = "error"
  /\ Len(resolution.codes) = 4

\* The strings a set of expected codes stands for.
SetStrings(S) ==
  {Decimal3(n) : n \in S.codes} \cup (IF S.error THEN {ErrorToken} ELSE {})

\* The resolved codes are exactly those of the set, each once.
ResolvedExactly(S) ==
  /\ resolution.state = "ok"
  /\ {resolution.codes[i] : i \in 1..Len(resolution.codes)} = SetStrings(S)
  /\ Len(resolution.codes) = Cardinality(SetStrings(S))

\* C24 as stated: for every set S of expected codes, resolving the
\* serialization of S succeeds and denotes exactly S.
C24_RoundTripEverySet ==
  resolution.rendered /\ resolution.state \in {"ok", "error"} =>
    ResolvedExactly(resolution.set)

\* C24 amended: for every non-empty set S of expected codes, resolving the
\* serialization of S succeeds and denotes exactly S; the serialization of
\* the empty set is the empty expression, which the resolver rejects.
C24_RoundTripNonEmptySet ==
  resolution.rendered /\ resolution.state \in {"ok", "error"} =>
    IF resolution.set.codes = {} /\ ~resolution.set.error
      THEN resolution.state = "error" /\ resolution.codes = <<>>
      ELSE ResolvedExactly(resolution.set)

\* The serialization of a set of several codes and "error" has been
\* resolved.
C24_Witness ==
  /\ resolution.rendered
  /\ resolution.state = "ok"
  /\ Cardinality(resolution.set.codes) >= 2
  /\ resolution.set.error

\* The delay of the prepared request in nanoseconds.
DelayNs == prepared.delay.ms * MsNs + prepared.delay.ns

\* prepare has derived a delay from the request.
DelayDerived ==
  /\ prepared.result # "none"
  /\ \/ prepared.request.mode = "PERIODIC"
     \/ prepared.request.duration > 0 /\ prepared.request.numberOfRequests > 0

\* C25: in PERIODIC mode the delay between tickets is one second divided
\* by requests_per_second (to the nanosecond), and in either mode a derived
\* delay below one millisecond makes prepare return a soft error and create
\* no engine.
C25_PeriodicDelay ==
  /\ /\ prepared.result # "none"
     /\ prepared.request.mode = "PERIODIC"
     /\ prepared.request.requestsPerSecond > 0
     => LET rps == prepared.request.requestsPerSecond
        IN /\ DelayNs * rps <= SecondNs
           /\ SecondNs < (DelayNs + 1) * rps
  /\ DelayDerived /\ prepared.delay.ms < 1 =>
       /\ prepared.result = "configError"
       /\ ~registered
       /\ stpc[1] \in {"init", "failed"}

\* A PERIODIC prepare with a rate above 1000 per second has been rejected,
\* and the start that followed has failed.
C25_Witness ==
  /\ prepared.request.mode = "PERIODIC"
  /\ prepared.request.requestsPerSecond > 1000
  /\ prepared.result = "configError"
  /\ prepared.delay.ms < 1 /\ prepared.delay.ns > 0
  /\ stpc[1] = "failed"

\* The keys of the Metric emitted for attempt i.
KeysOf(i) == MetricKeys(i \in errorTagged)

\* C26: every Metric emitted for an attempt carries exactly one of the tags
\* `http_status` and `error`.
C26_OneOfStatusOrError ==
  \A i \in emitted :
    Cardinality(KeysOf(i) \cap {"http_status", "error"}) = 1

\* Metrics of both kinds have been emitted.
C26_Witness ==
  \E i, j \in emitted :
    /\ "error" \in KeysOf(i) /\ "http_status" \notin KeysOf(i)
    /\ "http_status" \in KeysOf(j) /\ "error" \notin KeysOf(j)

\* The workers with an attempt in flight: begun (started counted) and not
\* yet recorded or abandoned.
InFlight ==
  {w \in Workers : wpc[w] \in {"do", "aborted", "body", "send", "parked", "count"}}

\* C27: at every moment at most max_concurrent attempts are in flight; with
\* max_concurrent = 1 an attempt begins only when none is in flight, every
\* earlier attempt having emitted its metric and updated its counter, or
\* having been cancelled.
C27_AtMostMaxConcurrentInFlight ==
  /\ [](Cardinality(InFlight) <= maxConcurrent)
  /\ [](~cancelled => started <= success + failed + Cardinality(InFlight))
  /\ [][maxConcurrent = 1 /\ started' = started + 1 =>
          /\ InFlight = {}
          /\ success + failed = Cardinality(emitted)
          /\ (started > Cardinality(emitted) => cancelled)]_vars

\* With max_concurrent = 1 the second attempt is in flight after the first
\* has emitted its metric and been counted.
C27_Witness ==
  /\ maxConcurrent = 1
  /\ started = 2 /\ Cardinality(InFlight) = 1
  /\ emitted = {1} /\ success + failed = 1

\* The worker goroutines that are running.
LiveWorkers == {w \in Workers : wpc[w] \notin {"unborn", "exited"}}

\* C28: a transport error never ends a worker or the engine: the worker
\* that recorded it (metric, then counter) is back at its loop for the next
\* ticket; a worker ends only once the work channel is closed, and until
\* then the whole pool of max_concurrent workers, once launched, is alive.
C28_TransportErrorKeepsWorker ==
  /\ [][\A w \in Workers :
          werr[w] => /\ wpc'[w] # "exited"
                     /\ (wpc[w] = "count" /\ wpc'[w] # "count" => wpc'[w] = "recv")]_vars
  /\ [](\A w \in Workers : wpc[w] = "exited" => workClosed)
  /\ [](~workClosed /\ spawn > maxConcurrent =>
          Cardinality(LiveWorkers) = maxConcurrent)

\* The only worker launched so far has recorded a transport error for the
\* first attempt and is performing the second.
C28_Witness ==
  /\ spawn = 2
  /\ 1 \in errorTagged /\ success + failed = 1
  /\ wpc[1] = "do" /\ wid[1] = 2
  /\ ~workClosed

\* C30: a stop issued after a successful prepare and without any start
\* eventually returns, and from then on no worker goroutine of the engine
\* remains.
C30_StopWithoutStartReturns ==
  \A c \in Callers :
    (cpc[c] = "stopCancel" /\ stpc[1] = "init") ~>
      (stopResult.done /\ LiveWorkers = {})

\* The threshold faults of a bandwidth prepare request: neither threshold
\* given, a given threshold that is no bitrate, or both positive with the
\* minimum above the maximum.
ThresholdsInvalid(rq) ==
  \/ ~rq.minBandwidth.given /\ ~rq.maxBandwidth.given
  \/ rq.minBandwidth.given /\ ~rq.minBandwidth.valid
  \/ rq.maxBandwidth.given /\ ~rq.maxBandwidth.valid
  \/ /\ rq.minBandwidth.valid /\ rq.maxBandwidth.valid
     /\ rq.minBandwidth.bps > 0 /\ rq.maxBandwidth.bps > 0
     /\ rq.minBandwidth.bps > rq.maxBandwidth.bps

\* C29 as stated: a bandwidth prepare with a threshold fault returns a soft
\* error, no hard error, and registers no bandwidth checker.
C29_ThresholdFaultIsSoftError ==
  prepared.result # "none" /\ ThresholdsInvalid(prepared.request) =>
    prepared.result = "configError" /\ ~prepared.stored

\* C29 amended: a bandwidth prepare with a threshold fault registers no
\* bandwidth checker; it returns a soft error when the URL is present and
\* parses and the headers parse, and otherwise the hard error of the URL or
\* the headers, which are checked first.  Without a threshold fault the
\* thresholds given are parsed to their bits per second.
C29_ThresholdFaultAfterUrlAndHeaders ==
  LET rq == prepared.request
  IN /\ prepared.result # "none" /\ ThresholdsInvalid(rq) =>
          /\ ~prepared.stored
          /\ prepared.result =
               IF rq.url = "ok" /\ rq.headersValid THEN "configError"
               ELSE "error"
     /\ prepared.result = "ok" =>
          /\ prepared.stored
          /\ ~ThresholdsInvalid(rq)
          /\ prepared.minBps = rq.minBandwidth.bps
          /\ prepared.maxBps = rq.maxBandwidth.bps

\* A request with a parsing URL and headers and a minimum above the
\* maximum has been rejected with a soft error.
C29_Witness ==
  /\ prepared.result = "configError"
  /\ ~prepared.stored
  /\ prepared.request.minBandwidth.valid /\ prepared.request.maxBandwidth.valid
  /\ prepared.minBps > prepared.maxBps /\ prepared.maxBps > 0

\* C31: over any interleaving of start, status and stop calls on one
\* engine, repeated start included, the work channel is closed at most once
\* and no ticket is sent on it once it is closed: no start call and no
\* scheduler ever closes the closed channel or sends on it.
C31_WorkClosedOnce ==
  \A k \in StartCalls : stpc[k] # "panic"

\* The tickets ever placed into the work channel: those still buffered and
\* those a worker has taken (counted in `started` once the attempt begins).
TicketsPlaced ==
  work + started + Cardinality({w \in Workers : wpc[w] = "begin"})

\* No start call or scheduler is between placing a ticket and counting it.
SchedulerStepsComplete ==
  \A k \in StartCalls : stpc[k] \notin {"firstAdd", "tickAdd"}

\* A tick finds the open work channel full.
TickFindsChannelFull(k) ==
  stpc[k] = "loop" /\ requested < MaxTickets /\ ~workClosed /\ work = maxConcurrent

\* C32: a tick that finds the work channel full places no ticket and leaves
\* `requested` and the channel unchanged; once every scheduler step has
\* completed, `requested` equals the number of tickets ever placed into the
\* work channel.
C32_RequestedCountsPlacedTickets ==
  /\ [](SchedulerStepsComplete => requested = TicketsPlaced)
  /\ [][\A k \in StartCalls :
          (TickFindsChannelFull(k) /\ SchedulerTick(k))
             => UNCHANGED <<requested, work, stpc>>]_vars

\* A tick has been dropped on a full channel (the drop leaves the state as
\* it was), and the counted tickets are the placed ones.
C32_Witness ==
  /\ TickFindsChannelFull(1)
  /\ requested = 1
  /\ TicketsPlaced = 1

\* All max_concurrent workers of the pool have an attempt in flight.
AllWorkersBusy == \A w \in 1..maxConcurrent : w \in InFlight

\* C33: whenever all max_concurrent workers have an attempt in flight a
\* tick is dropped, so that no ticket ever waits in the work channel behind
\* busy workers.
C33_NoTicketBehindBusyWorkers ==
  AllWorkersBusy => work = 0

\* C34: within one worker an attempt starts, then emits its Metric, then
\* updates a counter: in every reachable state success + failed is at most
\* the number of Metrics emitted so far, which is at most started, and a
\* worker about to update a counter has emitted its attempt's Metric; so
\* the attempts a status call counts have their Metrics sent already.
C34_EmissionBetweenStartAndCount ==
  /\ success + failed <= Cardinality(emitted)
  /\ Cardinality(emitted) <= started
  /\ \A w \in Workers : wpc[w] = "count" => wid[w] \in emitted

\* One attempt is counted, a second one has emitted its Metric and is not
\* counted yet.
C34_Witness ==
  /\ success + failed = 1
  /\ Cardinality(emitted) = 2
  /\ started = 2
  /\ \E w \in Workers : wpc[w] = "count"

(* ------------- a FIXED_AMOUNT run that is polled, never stopped -------- *)

\* The engine of a FIXED_AMOUNT check (NumberOfRequests >= 1, no
\* RequestsPerSecond, so an unbuffered metric channel), with a pool of any
\* permitted size; the run is followed until all its tickets are issued.
InitFixedPolled ==
  /\ Created
  /\ maxRequests > 0
  /\ maxRequests <= MaxTickets
  /\ observed = {}
  /\ maxConcurrent \in 1..MaxConcurrent

\* A worker's steps while the context is never cancelled.
PolledWorkerStep(w) ==
  \/ WorkerReceive(w)
  \/ WorkerBegin(w)
  \/ WorkerIO(w)
  \/ WorkerReadBody(w)
  \/ WorkerSend(w)
  \/ WorkerCount(w)

\* The scheduler's steps while the context is never cancelled.
PolledSchedulerStep ==
  \/ SchedulerTick(1)
  \/ SchedulerTickAdd(1)
  \/ SchedulerClose(1)

\* start, the scheduler, the workers and the status calls of one caller;
\* no stop call is made.
NextFixedPolled ==
  \/ SpawnWorker
  \/ \E w \in Workers : PolledWorkerStep(w)
  \/ StartStep(1)
  \/ PolledSchedulerStep
  \/ DeadlinePasses
  \/ StatusStep(Poller)
  \/ DrainOne(Poller)

(* Every runnable goroutine runs, every HTTP attempt returns (WorkerIO is  *)
(* a WorkerStep), and the caller keeps polling: a new status call is made  *)
(* whenever the previous one has returned.                                 *)
FairnessFixedPolled ==
  /\ WF_vars(SpawnWorker)
  /\ \A w \in Workers : WF_vars(PolledWorkerStep(w))
  /\ WF_vars(StartStep(1))
  /\ WF_vars(PolledSchedulerStep)
  /\ WF_vars(StatusStep(Poller) \/ DrainOne(Poller))

SpecFixedPolled ==
  InitFixedPolled /\ [][NextFixedPolled]_vars /\ FairnessFixedPolled

\* The scheduler has returned and closed the work channel, no ticket is
\* left in it, and the workers of the pool have returned.
EngineWoundDown ==
  /\ stpc[1] = "done"
  /\ workClosed
  /\ work = 0
  /\ requested = started
  /\ spawn > maxConcurrent
  /\ \A w \in 1..maxConcurrent : wpc[w] = "exited"

\* A status call is returning completed = true.
ReturnsCompleted(c) ==
  cpc[c] = "statusDrain" /\ ~RecvReady(metrics, sendq) /\ Completed(c)

\* C35: in FIXED_AMOUNT mode, with no stop call, every attempt returning
\* and the caller polling status, under fair scheduling the scheduler
\* eventually stops itself and closes the work channel, every issued ticket
\* is consumed, all workers exit, and a status call returns completed.
C35_FixedAmountWindsDown ==
  /\ <>[]EngineWoundDown
  /\ <>ReturnsCompleted(Poller)

\* The engine has wound down and a status call returns completed = true
\* from the tallies, before the deadline.
C35_Witness ==
  /\ EngineWoundDown
  /\ ReturnsCompleted(Poller)
  /\ ~cafter[Poller]
  /\ ~timedOut

\* C36: in the Metric of a response the tag `response_constraints_fulfilled`
\* is present iff a body substring check is configured, and the tag
\* `response_time_constraints_fulfilled` is present iff a response-time
\* check (SHORTER_THAN or LONGER_THAN) is configured.
C36_TagsOnlyForConfiguredChecks ==
  \A i \in emitted :
    attempt.outcome = "response" =>
      /\ "response_constraints_fulfilled" \in KeysOf(i) <=> attempt.checksBody
      /\ "response_time_constraints_fulfilled" \in KeysOf(i)
            <=> attempt.mode \in {"SHORTER_THAN", "LONGER_THAN"}

(* ---------------- several engines in the registry ---------------------- *)

\* The variables of the engine followed in detail.
singleEngineVars ==
  <<maxRequests, metricsCap, expectsError, attempt, prepared, observed,
    resolution, maxConcurrent, registered, engineVars, workerVars, stpc,
    callerVars, timedOut, historyVars>>

\* The engine followed in detail is not created.
SingleEngineUnused ==
  /\ maxRequests = 0 /\ metricsCap = 0 /\ expectsError = FALSE
  /\ attempt = NoAttempt
  /\ prepared = PreparedOk
  /\ resolution = NoResolution
  /\ observed = {}
  /\ maxConcurrent = MaxConcurrent
  /\ registered = FALSE
  /\ work = 0 /\ workClosed = FALSE /\ cancelled = FALSE
  /\ metrics = <<>> /\ sendq = <<>>
  /\ requested = 0 /\ started = 0 /\ success = 0 /\ failed = 0
  /\ wg = 0
  /\ spawn = 1
  /\ wpc = [w \in Workers |-> "unborn"]
  /\ wid = [w \in Workers |-> 0]
  /\ wok = [w \in Workers |-> FALSE]
  /\ wobs = [w \in Workers |-> FALSE]
  /\ werr = [w \in Workers |-> FALSE]
  /\ stpc = [k \in StartCalls |-> "init"]
  /\ cpc = [c \in Callers |-> "idle"]
  /\ cs = [c \in Callers |-> 0]
  /\ cf = [c \in Callers |-> 0]
  /\ cafter = [c \in Callers |-> FALSE]
  /\ cfin = [c \in Callers |-> FALSE]
  /\ cdue = [c \in Callers |-> FALSE]
  /\ cacc = [c \in Callers |-> <<>>]
  /\ timedOut = FALSE
  /\ returned = [i \in AttemptIds |-> 0]
  /\ emitted = {}
  /\ errorTagged = {}
  /\ stopResult = NoStop
  /\ stopWins = 0
  /\ stopNoops = FALSE

\* The execution ids of the experiment steps that run concurrently.
Executions == {"e1", "e2"}

(* An httpChecker object (of a PERIODIC check) and its entry in the        *)
(* httpCheckers map: the work channel, context, counters and metric        *)
(* buffer are fields of the object that newHttpChecker allocates.          *)
NoEngine ==
  [created |-> FALSE, registered |-> FALSE, sched |-> "init", stop |-> "none",
   work |-> 0, workClosed |-> FALSE, cancelled |-> FALSE,
   requested |-> 0, started |-> 0, success |-> 0, failed |-> 0,
   metrics |-> 0, inFlight |-> 0]

\* The metric buffer of these engines: state.RequestsPerSecond * 2.
EngineMetricsCap == MaxRequestsPerSecond * 2

\* A prepare that replaces the whole registry by the new engine.
EnginePrepareReplacesAll(e) ==
  /\ ~httpCheckers[e].created
  /\ httpCheckers' =
       [o \in Executions |->
          IF o = e THEN [NoEngine EXCEPT !.created = TRUE, !.registered = TRUE]
                   ELSE NoEngine]
  /\ UNCHANGED <<singleEngineVars, bandwidthVars>>

\* prepare: checker := newHttpChecker(state);
\* httpCheckers.Store(state.ExecutionID, checker).
EnginePrepare(e) ==
  /\ ~httpCheckers[e].created
  /\ httpCheckers' =
       [httpCheckers EXCEPT ![e] =
          [NoEngine EXCEPT !.created = TRUE, !.registered = TRUE]]
  /\ UNCHANGED <<singleEngineVars, bandwidthVars>>

\* start: loadHttpChecker(state.ExecutionID), then checker.start() sends the
\* first ticket, counts it and launches the scheduler.
EngineStart(e) ==
  /\ httpCheckers[e].registered
  /\ httpCheckers[e].sched = "init"
  /\ httpCheckers' =
       [httpCheckers EXCEPT ![e].work = @ + 1, ![e].requested = @ + 1,
                            ![e].sched = "loop"]
  /\ UNCHANGED <<singleEngineVars, bandwidthVars>>

\* The scheduler of engine e: a tick with room in c.work places and counts a
\* ticket.  (A tick on a full channel is dropped and changes nothing.)
EngineTick(e) ==
  /\ httpCheckers[e].sched = "loop"
  /\ httpCheckers[e].requested < MaxTickets
  /\ httpCheckers[e].work < MaxConcurrent
  /\ httpCheckers' =
       [httpCheckers EXCEPT ![e].work = @ + 1, ![e].requested = @ + 1]
  /\ UNCHANGED <<singleEngineVars, bandwidthVars>>

\* The scheduler of engine e: `case <-c.ctx.Done(): return`, and the
\* deferred close(c.work).
EngineSchedulerDone(e) ==
  /\ httpCheckers[e].sched = "loop"
  /\ httpCheckers[e].cancelled
  /\ httpCheckers' =
       [httpCheckers EXCEPT ![e].sched = "done", ![e].workClosed = TRUE]
  /\ UNCHANGED <<singleEngineVars, bandwidthVars>>

\* A worker of engine e takes a ticket from c.work and begins its attempt:
\* c.counters.started.Add(1).
EngineWorkerBegin(e) ==
  /\ httpCheckers[e].created
  /\ httpCheckers[e].work > 0
  /\ httpCheckers[e].inFlight < MaxConcurrent
  /\ httpCheckers' =
       [httpCheckers EXCEPT ![e].work = @ - 1, ![e].started = @ + 1,
                            ![e].inFlight = @ + 1]
  /\ UNCHANGED <<singleEngineVars, bandwidthVars>>

\* A worker of engine e ends its attempt: onResponse / onError send the
\* Metric to c.metrics and update c.counters; an attempt that sees the
\* cancelled context returns without either.
EngineWorkerEnd(e) ==
  /\ httpCheckers[e].inFlight > 0
  /\ \/ /\ httpCheckers[e].metrics < EngineMetricsCap
        /\ \E ok \in BOOLEAN :
             httpCheckers' =
               [httpCheckers EXCEPT
                  ![e].metrics = @ + 1,
                  ![e].success = CountResult(httpCheckers[e].success,
                                             httpCheckers[e].failed, ok)[1],
                  ![e].failed = CountResult(httpCheckers[e].success,
                                            httpCheckers[e].failed, ok)[2],
                  ![e].inFlight = @ - 1]
     \/ /\ httpCheckers[e].cancelled
        /\ httpCheckers' = [httpCheckers EXCEPT ![e].inFlight = @ - 1]
  /\ UNCHANGED <<singleEngineVars, bandwidthVars>>

\* status: loadHttpChecker(state.ExecutionID), then
\* checker.getLatestMetrics() drains c.metrics.
EngineStatus(e) ==
  /\ httpCheckers[e].registered
  /\ httpCheckers[e].metrics > 0
  /\ httpCheckers' = [httpCheckers EXCEPT ![e].metrics = 0]
  /\ UNCHANGED <<singleEngineVars, bandwidthVars>>

\* stop: loadAndDeleteHttpChecker(state.ExecutionID), then
\* checker.shutdown() cancels c.ctx and waits for the workers.
EngineStop(e) ==
  /\ httpCheckers[e].registered
  /\ httpCheckers' =
       [httpCheckers EXCEPT ![e].registered = FALSE, ![e].cancelled = TRUE,
                            ![e].stop = "waiting"]
  /\ UNCHANGED <<singleEngineVars, bandwidthVars>>

\* stop, after c.wg.Wait() returned (the work channel is closed and no
\* attempt is in flight): the last getLatestMetrics(), and the result.
EngineStopReturn(e) ==
  /\ httpCheckers[e].stop = "waiting"
  /\ httpCheckers[e].workClosed
  /\ httpCheckers[e].work = 0
  /\ httpCheckers[e].inFlight = 0
  /\ httpCheckers' =
       [httpCheckers EXCEPT ![e].metrics = 0, ![e].stop = "returned"]
  /\ UNCHANGED <<singleEngineVars, bandwidthVars>>

\* A lifecycle operation or a worker or scheduler step of engine e.
EngineStep(e) ==
  \/ EnginePrepare(e)
  \/ EngineStart(e)
  \/ EngineTick(e)
  \/ EngineSchedulerDone(e)
  \/ EngineWorkerBegin(e)
  \/ EngineWorkerEnd(e)
  \/ EngineStatus(e)
  \/ EngineStop(e)
  \/ EngineStopReturn(e)

InitRegistry ==
  /\ SingleEngineUnused
  /\ httpCheckers = [e \in Executions |-> NoEngine]
  /\ bw = [state |-> "unused"]
  /\ bwWorker = <<>>
  /\ bwCaller = <<>>

NextRegistry == \E e \in Executions : EngineStep(e)

SpecRegistry == InitRegistry /\ [][NextRegistry]_vars

\* C37: engines are isolated: a lifecycle operation (prepare, start, status,
\* stop) or a worker or scheduler step of the engine registered under one
\* execution id leaves the counters, work channel, metric buffer and
\* registry entry of the engine of every other execution id unchanged,
\* however the calls interleave.
C37_EnginesIsolated ==
  [][\A e \in Executions :
       EngineStep(e) =>
         \A o \in Executions \ {e} : httpCheckers'[o] = httpCheckers[o]]_vars

\* One engine has been stopped and has returned while the other one is
\* registered, has recorded attempts and holds metrics and a ticket.
C37_Witness ==
  /\ httpCheckers["e1"].stop = "returned"
  /\ httpCheckers["e1"].success + httpCheckers["e1"].failed > 0
  /\ httpCheckers["e2"].registered
  /\ httpCheckers["e2"].success > 0
  /\ httpCheckers["e2"].metrics > 0
  /\ httpCheckers["e2"].work > 0

(* -------------------- the bandwidth measurement window ----------------- *)

\* The recordings (chunks, completed requests, errors) a run is followed for.
MaxRecordings == 3

\* The bytes of one chunk that response.Body.Read returns.
ChunkBytes == 1

\* The window durations time.Since(c.windowStartTime) is drawn from, in
\* milliseconds: none, one second, two seconds.
WindowMs == {0, 1000, 2000}

\* The configured thresholds in bit/s; 0 is "not set".
MinBandwidths == {0, 8}
MaxBandwidths == {0, 16}

\* A window: <<bytes downloaded, requests completed, errors>>.
EmptyWindow == [bytes |-> 0, requests |-> 0, errors |-> 0]

WindowSum(a, b) ==
  [bytes |-> a.bytes + b.bytes,
   requests |-> a.requests + b.requests,
   errors |-> a.errors + b.errors]

\* The window the checker is accumulating.
CurrentWindow ==
  [bytes |-> bw.windowBytesDownloaded,
   requests |-> bw.windowRequestCount,
   errors |-> bw.windowErrorCount]

\* A caller that is in no Status or Stop call.
IdleCaller == [pc |-> "idle", window |-> EmptyWindow, ms |-> 0]

\* The recordings made so far.
Recordings == bw.recorded.bytes + bw.recorded.requests + bw.recorded.errors

(* emitWindowMetric: float64(bytesDownloaded*8) / windowSeconds in bit/s,  *)
(* where a window of no duration counts as 0.001 s.  For the durations of  *)
(* WindowMs the quotient is a whole number, which float64 holds exactly    *)
(* or, at 0.001 s, within a relative error far below the distance to the   *)
(* thresholds it is compared with.                                         *)
BandwidthBps(bytes, ms) ==
  (bytes * 8 * 1000) \div (IF ms <= 0 THEN 1 ELSE ms)

\* A threshold rule that ignores the errors of the window.
WithinThresholdIgnoringErrors(min, max, w, ms) ==
  /\ ~(min > 0 /\ BandwidthBps(w.bytes, ms) < min)
  /\ ~(max > 0 /\ BandwidthBps(w.bytes, ms) > max)

\* emitWindowMetric: withinThreshold.
WithinThreshold(min, max, w, ms) ==
  /\ ~(min > 0 /\ BandwidthBps(w.bytes, ms) < min)
  /\ ~(max > 0 /\ BandwidthBps(w.bytes, ms) > max)
  /\ ~(w.errors > 0 /\ w.requests = 0)

\* emitWindowMetric: "no activity in this window".
NoActivity(w) == w.bytes = 0 /\ w.requests = 0 /\ w.errors = 0

\* newBandwidthChecker and Prepare's bandwidthCheckers.Store.
InitWindow ==
  /\ SingleEngineUnused
  /\ httpCheckers = <<>>
  /\ bw \in [minBps : MinBandwidths, maxBps : MaxBandwidths,
             started : {FALSE}, stopped : {FALSE}, registered : {TRUE},
             windowBytesDownloaded : {0}, windowRequestCount : {0},
             windowErrorCount : {0},
             counterWindowSuccess : {0}, counterWindowFailed : {0},
             recorded : {EmptyWindow}, accounted : {EmptyWindow},
             metricsReturned : {0}]
  /\ bwWorker = [w \in Workers |-> "unborn"]
  /\ bwCaller = [c \in Callers |-> IdleCaller]

(* Start: loadBandwidthChecker, then bandwidthChecker.start resets the     *)
(* window under the mutex and launches the MaxConcurrent workers.          *)
BwStart ==
  /\ bw.registered /\ ~bw.started
  /\ bw' = [bw EXCEPT !.started = TRUE,
                      !.windowBytesDownloaded = 0,
                      !.windowRequestCount = 0,
                      !.windowErrorCount = 0]
  /\ bwWorker' = [w \in Workers |-> "loop"]
  /\ UNCHANGED <<singleEngineVars, httpCheckers, bwCaller>>

\* recordError under windowMu.
RecordError(b) ==
  [b EXCEPT !.windowErrorCount = @ + 1, !.recorded.errors = @ + 1]

\* recordBytes under windowMu.
RecordBytes(b, n) ==
  [b EXCEPT !.windowBytesDownloaded = @ + n, !.recorded.bytes = @ + n]

\* recordRequestCompleted under windowMu.
RecordRequestCompleted(b) ==
  [b EXCEPT !.windowRequestCount = @ + 1, !.recorded.requests = @ + 1]

(* performBandwidthRequests, `for !c.stopped.Load()`: the loop ends when   *)
(* stopped; otherwise client.Do fails or answers outside 2xx (recordError, *)
(* continue), or the body is about to be read.                             *)
BwWorkerRequest(w) ==
  /\ bwWorker[w] = "loop"
  /\ IF bw.stopped
       THEN bwWorker' = [bwWorker EXCEPT ![w] = "exited"] /\ bw' = bw
       ELSE \/ /\ Recordings < MaxRecordings
               /\ bw' = RecordError(bw)
               /\ bwWorker' = bwWorker
            \/ /\ bwWorker' = [bwWorker EXCEPT ![w] = "reading"]
               /\ bw' = bw
  /\ UNCHANGED <<singleEngineVars, httpCheckers, bwCaller>>

(* performBandwidthRequests, the read loop: a chunk (recordBytes), or      *)
(* io.EOF (recordRequestCompleted), or a read error (recordError).         *)
BwWorkerRead(w) ==
  /\ bwWorker[w] = "reading"
  /\ Recordings < MaxRecordings
  /\ \/ bw' = RecordBytes(bw, ChunkBytes) /\ bwWorker' = bwWorker
     \/ /\ bw' = RecordRequestCompleted(bw)
        /\ bwWorker' = [bwWorker EXCEPT ![w] = "loop"]
     \/ /\ bw' = RecordError(bw)
        /\ bwWorker' = [bwWorker EXCEPT ![w] = "loop"]
  /\ UNCHANGED <<singleEngineVars, httpCheckers, bwCaller>>

\* A snapshot that leaves the window's errors out, and resets them.
SnapshotWithoutErrors(b, ms) ==
  [window |-> [bytes |-> b.windowBytesDownloaded,
               requests |-> b.windowRequestCount,
               errors |-> 0],
   ms |-> ms]

\* emitWindowMetric under windowMu: the local copies of the window counters
\* and the window duration.
Snapshot(b, ms) ==
  [window |-> [bytes |-> b.windowBytesDownloaded,
               requests |-> b.windowRequestCount,
               errors |-> b.windowErrorCount],
   ms |-> ms]

\* emitWindowMetric under windowMu: "Reset window"; the window just copied
\* is accounted to this emission.
ResetWindow(b, snap) ==
  [b EXCEPT !.windowBytesDownloaded = 0,
            !.windowRequestCount = 0,
            !.windowErrorCount = 0,
            !.accounted = WindowSum(@, snap.window)]

(* Status: loadBandwidthChecker, then emitWindowMetric up to               *)
(* c.windowMu.Unlock(): snapshot and reset in one critical section.        *)
BwStatusSnapshot(c) ==
  /\ bwCaller[c].pc = "idle"
  /\ bw.registered /\ bw.started
  /\ \E ms \in WindowMs :
       /\ bwCaller' = [bwCaller EXCEPT ![c] =
            [pc |-> "statusEmit", window |-> Snapshot(bw, ms).window,
             ms |-> ms]]
       /\ bw' = ResetWindow(bw, Snapshot(bw, ms))
  /\ UNCHANGED <<singleEngineVars, httpCheckers, bwWorker>>

\* Stop: loadBandwidthChecker finds the checker.
BwStopLoad(c) ==
  /\ bwCaller[c].pc = "idle"
  /\ bw.registered /\ bw.started
  /\ bwCaller' = [bwCaller EXCEPT ![c].pc = "stopDelete"]
  /\ UNCHANGED <<singleEngineVars, httpCheckers, bw, bwWorker>>

\* Stop: checker.stop(); bandwidthCheckers.Delete(state.ExecutionID).
BwStopDelete(c) ==
  /\ bwCaller[c].pc = "stopDelete"
  /\ bw' = [bw EXCEPT !.stopped = TRUE, !.registered = FALSE]
  /\ bwCaller' = [bwCaller EXCEPT ![c].pc = "stopSnapshot"]
  /\ UNCHANGED <<singleEngineVars, httpCheckers, bwWorker>>

\* Stop: emitWindowMetric up to c.windowMu.Unlock().
BwStopSnapshot(c) ==
  /\ bwCaller[c].pc = "stopSnapshot"
  /\ \E ms \in WindowMs :
       /\ bwCaller' = [bwCaller EXCEPT ![c] =
            [pc |-> "stopEmit", window |-> Snapshot(bw, ms).window,
             ms |-> ms]]
       /\ bw' = ResetWindow(bw, Snapshot(bw, ms))
  /\ UNCHANGED <<singleEngineVars, httpCheckers, bwWorker>>

(* emitWindowMetric after the Unlock: nil for a window without activity;   *)
(* otherwise the threshold check, one counter update and the Metric.       *)
EmitWindow(b, w, ms) ==
  IF NoActivity(w)
    THEN b
    ELSE IF WithinThreshold(b.minBps, b.maxBps, w, ms)
    THEN [b EXCEPT !.counterWindowSuccess = @ + 1, !.metricsReturned = @ + 1]
    ELSE [b EXCEPT !.counterWindowFailed = @ + 1, !.metricsReturned = @ + 1]

\* The rest of emitWindowMetric in a Status call, and the call's return.
BwStatusEmit(c) ==
  /\ bwCaller[c].pc = "statusEmit"
  /\ bw' = EmitWindow(bw, bwCaller[c].window, bwCaller[c].ms)
  /\ bwCaller' = [bwCaller EXCEPT ![c] = IdleCaller]
  /\ UNCHANGED <<singleEngineVars, httpCheckers, bwWorker>>

\* The rest of emitWindowMetric in a Stop call, and the call's return.
BwStopEmit(c) ==
  /\ bwCaller[c].pc = "stopEmit"
  /\ bw' = EmitWindow(bw, bwCaller[c].window, bwCaller[c].ms)
  /\ bwCaller' = [bwCaller EXCEPT ![c] = [IdleCaller EXCEPT !.pc = "stopped"]]
  /\ UNCHANGED <<singleEngineVars, httpCheckers, bwWorker>>

\* The second half of an emitWindowMetric call by caller c.
BwEmit(c) == BwStatusEmit(c) \/ BwStopEmit(c)

NextWindow ==
  \/ BwStart
  \/ \E w \in Workers : BwWorkerRequest(w) \/ BwWorkerRead(w)
  \/ \E c \in Callers :
       \/ BwStatusSnapshot(c)
       \/ BwStatusEmit(c)
       \/ BwStopLoad(c)
       \/ BwStopDelete(c)
       \/ BwStopSnapshot(c)
       \/ BwStopEmit(c)

SpecWindow == InitWindow /\ [][NextWindow]_vars

\* C38: emitWindowMetric on a window with no bytes, no completed request
\* and no error returns no metric and changes neither window counter; on any
\* other window it returns one metric and increments exactly one of the
\* window counters: the failed one iff the window bandwidth is below a
\* positive minimum, or above a positive maximum, or the window had errors
\* and no completed request, and the successful one otherwise.
C38_EmitWindowVerdict ==
  [][\A c \in Callers :
       BwEmit(c) =>
         LET w == bwCaller[c].window
             bps == BandwidthBps(w.bytes, bwCaller[c].ms)
             fails == \/ bw.minBps > 0 /\ bps < bw.minBps
                      \/ bw.maxBps > 0 /\ bps > bw.maxBps
                      \/ w.errors > 0 /\ w.requests = 0
         IN  IF w.bytes = 0 /\ w.requests = 0 /\ w.errors = 0
               THEN /\ bw'.metricsReturned = bw.metricsReturned
                    /\ bw'.counterWindowSuccess = bw.counterWindowSuccess
                    /\ bw'.counterWindowFailed = bw.counterWindowFailed
               ELSE /\ bw'.metricsReturned = bw.metricsReturned + 1
                    /\ bw'.counterWindowFailed =
                         bw.counterWindowFailed + (IF fails THEN 1 ELSE 0)
                    /\ bw'.counterWindowSuccess =
                         bw.counterWindowSuccess + (IF fails THEN 0 ELSE 1)]_vars

\* A window with errors only has been counted as failed although no
\* threshold is set, another window as successful, and a Status call is
\* about to return no metric for an empty window.
C38_Witness ==
  /\ bw.minBps = 0 /\ bw.maxBps = 0
  /\ bw.counterWindowFailed = 1
  /\ bw.counterWindowSuccess = 1
  /\ bw.metricsReturned = 2
  /\ \E c \in Callers :
       bwCaller[c].pc = "statusEmit" /\ NoActivity(bwCaller[c].window)

\* C39: under any interleaving of the workers' recordings with the window
\* emissions of Status and Stop, every recorded byte, completed request and
\* error is accounted in exactly one emitted window: the sum of the emitted
\* windows plus the current window equals the totals recorded.
C39_RecordingsAccountedOnce ==
  bw.recorded = WindowSum(bw.accounted, CurrentWindow)

\* Two windows with activity have been emitted, one of them by Stop while a
\* worker was still reading, and a later recording is in the current window.
C39_Witness ==
  /\ bw.metricsReturned = 2
  /\ \E c \in Callers : bwCaller[c].pc = "stopped"
  /\ ~NoActivity(bw.accounted)
  /\ ~NoActivity(CurrentWindow)
  /\ Recordings = MaxRecordings

=============================================================================
